---- MODULE Spec2Model ----
(***************************************************************************)
(* Model of the IRO incident-response control loop:                        *)
(*   - the Orchestrator's incident registry and its three event handlers   *)
(*     (src/src/iro/orchestrator.py),                                      *)
(*   - the remediate / do-not-remediate policy _should_remediate,          *)
(*   - the 'gemini' circuit breaker (src/src/iro/utils/circuit_breaker.py),*)
(*   - the Remediation Executor's bounded queue and worker pool            *)
(*     (src/src/iro/remediation/executor.py).                              *)
(*   - the Executor's stop() and _parse_time_estimate,                     *)
(*   - the Orchestrator's start(), stop() and maintenance loop, and the    *)
(*     Detector's monitoring loop and metrics history                      *)
(*     (src/src/iro/monitoring/detector.py),                               *)
(*   - the Analyzer's request handler and analysis cache                   *)
(*     (src/src/iro/analysis/analyzer.py).                                 *)
(*                                                                         *)
(* Handlers are coroutines: a handler runs atomically up to its next       *)
(* `await`, so each handler is one action per stretch between suspension   *)
(* points, and the continuation it resumes with is kept in a task slot.    *)
(***************************************************************************)
EXTENDS Integers, Sequences, FiniteSets, TLC

VARIABLES
    \* ---- configuration (config.remediation), fixed after construction
    config,
    \* ---- Orchestrator
    incidents,            \* self.incidents: id -> Incident
    detections,           \* number of incident.detected events handled per id
    tasks,                \* suspended Orchestrator handler coroutines
    gemini,               \* self.circuit_breakers['gemini']
    now,                  \* wall clock, seconds
    dashboard_updates,    \* published dashboard.incident_update: <<id, state>>
    analysis_requests,    \* published analysis.request, count per id
    remediation_requests, \* published remediation.request, count per id
    \* ---- _should_remediate called on its own
    sr_args,              \* the (incident, analysis) of the call
    sr_result,            \* <<>> before the call, <<outcome>> after it
    \* ---- a CircuitBreaker called on its own
    cb_call,              \* the last call made on it and the calls before it
    \* ---- RemediationExecutor
    exec_running,         \* self.running
    plans,                \* the RemediationPlan objects, by plan id
    execution_queue,      \* self.execution_queue: plan ids, oldest first
    putters,              \* request handlers suspended in execution_queue.put
    active_executions,    \* self.active_executions: plan ids
    workers,              \* the _execution_worker coroutines
    remediation_completed,\* remediation.completed events published, per plan id
    \* ---- _parse_time_estimate called for one recommended action
    parse_call,           \* the estimated_time text and what came of it
    \* ---- start(), stop() and the background loops
    life,                 \* Orchestrator.running, the coroutines of start()
                          \* and stop(), the components, the two loops
    \* ---- IncidentAnalyzer
    analyzer,             \* analysis_cache, the handlers in flight, and the
                          \* events handled and published so far
    \* ---- IncidentDetector
    detector              \* metrics_history and the metrics of the cycle

orchVars == <<incidents, detections, tasks, gemini, now, dashboard_updates,
              analysis_requests, remediation_requests>>
policyVars == <<sr_args, sr_result>>
breakerVars == <<cb_call>>
parseVars == <<parse_call>>
lifeVars == <<life>>
analyzerVars == <<analyzer>>
detectorVars == <<detector>>
compVars == <<analyzerVars, detectorVars>>
execVars == <<exec_running, plans, execution_queue, putters, active_executions,
              workers, remediation_completed>>
vars == <<config, orchVars, policyVars, breakerVars, execVars, parseVars,
          lifeVars, compVars>>
\* what the Orchestrator's handlers, and the Executor's, leave alone
notOrchestrator ==
    <<config, policyVars, breakerVars, execVars, parseVars, lifeVars,
      compVars>>
notExecutor ==
    <<config, policyVars, breakerVars, orchVars, parseVars, lifeVars,
      compVars>>
\* what start(), stop() and the loops leave alone, the registry and the
\* clock apart
notLife ==
    <<config, policyVars, breakerVars, execVars, parseVars, analyzerVars,
      detections,
      tasks, gemini, dashboard_updates, analysis_requests,
      remediation_requests>>

-----------------------------------------------------------------------------
(* Bounds of the model *)

\* incident.detected events handled per incident id (duplicates included)
MaxDetections == 2
\* Orchestrator handler coroutines suspended at the same time
MaxTasks == 1
\* remediation.request publications recorded per incident id
MaxRequests == 2
\* the clock stops advancing here
MaxTime == 30
\* config.remediation.max_concurrent: queue capacity and number of workers
max_concurrent == 1
\* remediation plans created by the Executor
MaxPlans == 2
\* record_failure() calls a breaker counts before it is closed again
MaxFailureCount == 4
\* reset timeouts the clock runs through while a breaker is called on its own
MaxPeriods == 3
\* can_execute() calls counted as admitted to one half-open trial
MaxTrials == 3
\* characters of an estimated_time text
MaxLen == 3
\* monitoring cycles of the Detector's loop
MaxCycles == 2
\* passes of the Orchestrator's maintenance loop
MaxPasses == 2
\* _handle_analysis_request coroutines suspended at the same time
MaxAnalyzerTasks == 2
\* analysis.request events handled by the Analyzer
MaxAnalysisRequests == 3

-----------------------------------------------------------------------------
(* Values *)

\* Incidents are handled independently of each other (every handler touches
\* the one incident its event names), so one id is followed through the
\* registry; events also arrive for an id that was never detected.
IncidentIds == {"i1"}
EventIds == IncidentIds \cup {"unknown"}

\* severity_weights keys: the SeverityLevel values
Severities == {"info", "warning", "error", "critical", "emergency"}

\* Confidence in hundredths: 0.7 is 70
ConfidenceThreshold == 70

\* An analysis dict, reduced to the keys the Orchestrator reads or the tests
\* look at: 'confidence' (may be absent) and 'model_version' (may be absent).
Analysis(has, c, mv) ==
    [has_confidence |-> has, confidence |-> c, model_version |-> mv]

\* Analyzer._get_fallback_analysis: confidence 0.6, model_version 'fallback'
AnalyzerFallback == Analysis(TRUE, 60, "fallback")

\* basic_analysis with a 'confidence' of 0.7
basic_analysis_AtThreshold == Analysis(TRUE, 70, "absent")

\* Orchestrator._handle_analysis_fallback: basic_analysis has a 'confidence'
\* of 0.6 and no 'model_version' key
basic_analysis == Analysis(TRUE, 60, "absent")

Configs == [dry_run : BOOLEAN, require_approval : BOOLEAN]

-----------------------------------------------------------------------------
(* _should_remediate *)

\* analysis.get('confidence', 0)
Confidence(analysis) ==
    IF analysis.has_confidence THEN analysis.confidence ELSE 0

\* _should_remediate with the confidence gate off by one (<= for <)
ShouldRemediateOutcome_ConfidenceLeq(cfg, severity, analysis) ==
    IF cfg.dry_run
      THEN [result |-> FALSE, log |-> "dry_run"]
    ELSE IF severity \in {"info", "warning"}
      THEN [result |-> FALSE, log |-> "none"]
    ELSE IF Confidence(analysis) <= ConfidenceThreshold
      THEN [result |-> FALSE, log |-> "confidence_too_low"]
    ELSE IF cfg.require_approval
      THEN [result |-> FALSE, log |-> "approval_required"]
    ELSE [result |-> TRUE, log |-> "none"]

\* The outcome of _should_remediate: the value returned and the message
\* logged on the way ("none" when the rule that fired logs nothing).
ShouldRemediateOutcome(cfg, severity, analysis) ==
    IF cfg.dry_run
      THEN [result |-> FALSE, log |-> "dry_run"]
    ELSE IF severity \in {"info", "warning"}
      THEN [result |-> FALSE, log |-> "none"]
    ELSE IF Confidence(analysis) < ConfidenceThreshold
      THEN [result |-> FALSE, log |-> "confidence_too_low"]
    ELSE IF cfg.require_approval
      THEN [result |-> FALSE, log |-> "approval_required"]
    ELSE [result |-> TRUE, log |-> "none"]

_should_remediate(cfg, severity, analysis) ==
    ShouldRemediateOutcome(cfg, severity, analysis).result

-----------------------------------------------------------------------------
(* CircuitBreaker *)

\* CircuitBreaker(failure_threshold=3, reset_timeout=30, name='gemini')
failure_threshold == 3
reset_timeout == 30
\* default of CircuitBreaker.__init__
success_threshold == 2

\* last_failure_time is <<>> (None) or <<t>>
NewCircuitBreaker ==
    [state |-> "closed", failure_count |-> 0, success_count |-> 0,
     last_failure_time |-> <<>>]

\* _transition_to_closed leaving the failure count as it was
_transition_to_closed_KeepsFailures(cb) ==
    [cb EXCEPT !.state = "closed", !.success_count = 0]

_transition_to_closed(cb) ==
    [cb EXCEPT !.state = "closed", !.failure_count = 0, !.success_count = 0]

\* _transition_to_open leaving the trial successes counted
_transition_to_open_KeepsSuccesses(cb) ==
    [cb EXCEPT !.state = "open"]

_transition_to_open(cb) ==
    [cb EXCEPT !.state = "open", !.success_count = 0]

_transition_to_half_open(cb) ==
    [cb EXCEPT !.state = "half_open", !.success_count = 0]

\* the reset timeout compared with > for >=
ResetElapsed_Strict(cb, t) ==
    /\ cb.last_failure_time # <<>>
    /\ t - cb.last_failure_time[1] > reset_timeout

\* the open breaker's reset timeout has passed at time t
ResetElapsed(cb, t) ==
    /\ cb.last_failure_time # <<>>
    /\ t - cb.last_failure_time[1] >= reset_timeout

\* can_execute(): the value returned ...
can_execute(cb, t) ==
    CASE cb.state = "closed" -> TRUE
      [] cb.state = "open" -> ResetElapsed(cb, t)
      [] cb.state = "half_open" -> TRUE
      [] OTHER -> FALSE

\* ... and the breaker it leaves behind
AfterCanExecute(cb, t) ==
    IF cb.state = "open" /\ ResetElapsed(cb, t)
      THEN _transition_to_half_open(cb)
      ELSE cb

\* record_success closing one success late (> for >=)
record_success_ClosesLate(cb) ==
    IF cb.state = "half_open"
      THEN LET c == [cb EXCEPT !.success_count = @ + 1]
           IN  IF c.success_count > success_threshold
                 THEN _transition_to_closed(c)
                 ELSE c
    ELSE IF cb.state = "closed"
      THEN [cb EXCEPT !.failure_count = 0]
    ELSE cb

\* record_success(), lines 63-71
record_success(cb) ==
    IF cb.state = "half_open"
      THEN LET c == [cb EXCEPT !.success_count = @ + 1]
           IN  IF c.success_count >= success_threshold
                 THEN _transition_to_closed(c)
                 ELSE c
    ELSE IF cb.state = "closed"
      THEN [cb EXCEPT !.failure_count = 0]
    ELSE cb

\* record_failure leaving last_failure_time as it was
record_failure_NoTime(cb, t) ==
    LET c == [cb EXCEPT !.failure_count = @ + 1]
    IN  IF c.state = "closed"
          THEN IF c.failure_count >= failure_threshold
                 THEN _transition_to_open(c)
                 ELSE c
        ELSE IF c.state = "half_open"
          THEN _transition_to_open(c)
        ELSE c

\* record_failure opening one failure late (> for >=)
record_failure_OpensLate(cb, t) ==
    LET c == [cb EXCEPT !.failure_count = @ + 1, !.last_failure_time = <<t>>]
    IN  IF c.state = "closed"
          THEN IF c.failure_count > failure_threshold
                 THEN _transition_to_open(c)
                 ELSE c
        ELSE IF c.state = "half_open"
          THEN _transition_to_open(c)
        ELSE c

record_failure(cb, t) ==
    LET c == [cb EXCEPT !.failure_count = @ + 1, !.last_failure_time = <<t>>]
    IN  IF c.state = "closed"
          THEN IF c.failure_count >= failure_threshold
                 THEN _transition_to_open(c)
                 ELSE c
        ELSE IF c.state = "half_open"
          THEN _transition_to_open(c)
        ELSE c

-----------------------------------------------------------------------------
(* Orchestrator: registry and handlers *)

TerminalStates == {"resolved", "failed"}

\* Incident as the Orchestrator stores it. obj tells apart the objects that
\* successive incident.detected events with the same id put in the registry.
\* root_cause, remediation_result and resolved_at are <<>> for None.
NewIncident(sev, obj, t) ==
    [severity |-> sev, state |-> "analyzing", root_cause |-> <<>>,
     remediation_result |-> <<>>, updated_at |-> t, resolved_at |-> <<>>,
     obj |-> obj]

\* A handler coroutine suspended at an await: which await (pc), and the
\* locals it resumes with.
NoTask ==
    [pc |-> "none", id |-> "", obj |-> 0, severity |-> "", analysis |-> <<>>]

Task(pc, id, obj, sev, analysis) ==
    [pc |-> pc, id |-> id, obj |-> obj, severity |-> sev, analysis |-> analysis]

TaskSlots == 1..MaxTasks

FreeSlots == {s \in TaskSlots : tasks[s].pc = "none"}

\* a new coroutine takes the first free slot
NextSlot == CHOOSE s \in FreeSlots : \A r \in FreeSlots : s <= r

Registered(id) == id \in DOMAIN incidents

\* self.incidents[incident.id] = incident
Store(reg, id, inc) == [i \in DOMAIN reg \cup {id} |-> IF i = id THEN inc ELSE reg[i]]

\* The incident object a coroutine holds is the registry's only while no
\* later incident.detected replaced it.
Holds(t) == Registered(t.id) /\ incidents[t.id].obj = t.obj

\* _handle_analysis_completed, lines 154-172: look the incident up, record
\* the analysis, set REMEDIATING, publish the dashboard update. The caller
\* suspends in slot s at the publish.
AnalysisCompletedBegin(s, id, analysis) ==
    IF ~Registered(id)
      THEN /\ tasks' = [tasks EXCEPT ![s] = NoTask]
           /\ UNCHANGED <<incidents, dashboard_updates>>
      ELSE /\ incidents' = [incidents EXCEPT
                               ![id].root_cause = <<analysis>>,
                               ![id].state = "remediating",
                               ![id].updated_at = now]
           /\ dashboard_updates' = dashboard_updates \cup {<<id, "remediating">>}
           /\ tasks' = [tasks EXCEPT ![s] =
                  Task("analysis_decide", id, incidents[id].obj,
                       incidents[id].severity, <<analysis>>)]

\* Inputs of the handlers (events on the bus)
OrchSeverities == {"warning", "critical"}
AnalysisInputs == {Analysis(TRUE, 90, "gemini-1.5-flash"), AnalyzerFallback}
ResultInputs == {"completed", "failed"}

OrchInit ==
    /\ incidents = [i \in {} |-> 0]
    /\ detections = [i \in IncidentIds |-> 0]
    /\ tasks = [s \in TaskSlots |-> NoTask]
    /\ gemini = NewCircuitBreaker
    /\ now = 0
    /\ dashboard_updates = {}
    /\ analysis_requests = [i \in EventIds |-> 0]
    /\ remediation_requests = [i \in EventIds |-> 0]

\* _handle_incident_detected, lines 112-130: build the Incident, store it
\* under its id, set ANALYZING, publish the dashboard update (first await).
HandleIncidentDetected(id, sev) ==
    /\ detections[id] < MaxDetections
    /\ FreeSlots # {}
    /\ detections' = [detections EXCEPT ![id] = @ + 1]
    /\ incidents' = Store(incidents, id, NewIncident(sev, detections[id] + 1, now))
    /\ dashboard_updates' = dashboard_updates \cup {<<id, "analyzing">>}
    /\ tasks' = [tasks EXCEPT ![NextSlot] =
           Task("detected_breaker", id, detections[id] + 1, sev, <<>>)]
    /\ UNCHANGED <<gemini, now, analysis_requests, remediation_requests>>
    /\ UNCHANGED notOrchestrator

\* _handle_incident_detected publishing analysis.request whatever the
\* breaker answers, and falling back as well when it refuses
DetectedCheckBreaker_BothPaths(s) ==
    /\ tasks[s].pc = "detected_breaker"
    /\ gemini' = AfterCanExecute(gemini, now)
    /\ analysis_requests' = [analysis_requests EXCEPT ![tasks[s].id] = @ + 1]
    /\ IF can_execute(gemini, now)
         THEN /\ tasks' = [tasks EXCEPT ![s].pc = "detected_published"]
              /\ UNCHANGED <<incidents, dashboard_updates>>
         ELSE AnalysisCompletedBegin(s, tasks[s].id, basic_analysis)
    /\ UNCHANGED <<detections, now, remediation_requests>>
    /\ UNCHANGED notOrchestrator

\* _handle_incident_detected, lines 132-137 and 144-146: ask the breaker;
\* publish analysis.request (second await), or fall back at once.
DetectedCheckBreaker(s) ==
    /\ tasks[s].pc = "detected_breaker"
    /\ gemini' = AfterCanExecute(gemini, now)
    /\ IF can_execute(gemini, now)
         THEN /\ analysis_requests' =
                     [analysis_requests EXCEPT ![tasks[s].id] = @ + 1]
              /\ tasks' = [tasks EXCEPT ![s].pc = "detected_published"]
              /\ UNCHANGED <<incidents, dashboard_updates>>
         ELSE /\ AnalysisCompletedBegin(s, tasks[s].id, basic_analysis)
              /\ UNCHANGED analysis_requests
    /\ UNCHANGED <<detections, now, remediation_requests>>
    /\ UNCHANGED notOrchestrator

\* _handle_incident_detected, lines 138-143: the publish returned
\* (record_success) or raised (record_failure, then the fallback).
DetectedPublishReturns(s, raised) ==
    /\ tasks[s].pc = "detected_published"
    /\ IF raised
         THEN /\ gemini' = record_failure(gemini, now)
              /\ AnalysisCompletedBegin(s, tasks[s].id, basic_analysis)
         ELSE /\ gemini' = record_success(gemini)
              /\ tasks' = [tasks EXCEPT ![s] = NoTask]
              /\ UNCHANGED <<incidents, dashboard_updates>>
    /\ UNCHANGED <<detections, now, analysis_requests, remediation_requests>>
    /\ UNCHANGED notOrchestrator

\* _handle_analysis_completed delivered by the bus, lines 151-172
HandleAnalysisCompleted(id, analysis) ==
    /\ FreeSlots # {}
    /\ remediation_requests[id] < MaxRequests
    /\ AnalysisCompletedBegin(NextSlot, id, analysis)
    /\ UNCHANGED <<detections, gemini, now, analysis_requests,
                   remediation_requests>>
    /\ UNCHANGED notOrchestrator

\* _handle_analysis_completed, lines 174-186, after the dashboard publish:
\* publish remediation.request, or set RESOLVED on the incident object the
\* coroutine holds and publish the update.
AnalysisDecide(s) ==
    LET t == tasks[s] IN
    /\ t.pc = "analysis_decide"
    /\ IF _should_remediate(config, t.severity, t.analysis[1])
         THEN /\ remediation_requests' =
                     [remediation_requests EXCEPT ![t.id] = @ + 1]
              /\ UNCHANGED <<incidents, dashboard_updates>>
         ELSE /\ incidents' =
                     IF Holds(t)
                       THEN [incidents EXCEPT ![t.id].state = "resolved",
                                              ![t.id].resolved_at = <<now>>]
                       ELSE incidents
              /\ dashboard_updates' =
                     dashboard_updates \cup {<<t.id, "resolved">>}
              /\ UNCHANGED remediation_requests
    /\ tasks' = [tasks EXCEPT ![s] = NoTask]
    /\ UNCHANGED <<detections, gemini, now, analysis_requests>>
    /\ UNCHANGED notOrchestrator

\* _handle_remediation_completed with the success flag ignored
ApplyRemediationCompleted_AlwaysResolved(inc, success, result, t) ==
    [inc EXCEPT !.state = "resolved",
                !.resolved_at = <<t>>,
                !.remediation_result = <<result>>,
                !.updated_at = t]

\* _handle_remediation_completed reopening an incident that is reported
\* failed a second time
ApplyRemediationCompleted_RetryOnRepeat(inc, success, result, t) ==
    [inc EXCEPT !.state = IF success THEN "resolved"
                          ELSE IF @ = "failed" THEN "remediating"
                          ELSE "failed",
                !.resolved_at = IF success THEN <<t>> ELSE @,
                !.remediation_result = <<result>>,
                !.updated_at = t]

\* _handle_remediation_completed, lines 203-212: what the handler does to
\* the incident object it looked up
ApplyRemediationCompleted(inc, success, result, t) ==
    [inc EXCEPT !.state = IF success THEN "resolved" ELSE "failed",
                !.resolved_at = IF success THEN <<t>> ELSE @,
                !.remediation_result = <<result>>,
                !.updated_at = t]

\* _handle_remediation_completed, lines 191-217 (its only await is last)
HandleRemediationCompleted(id, success, result) ==
    /\ IF ~Registered(id)
         THEN UNCHANGED <<incidents, dashboard_updates>>
         ELSE /\ incidents' = [incidents EXCEPT
                     ![id] = ApplyRemediationCompleted(@, success, result, now)]
              /\ dashboard_updates' =
                     dashboard_updates \cup {<<id, incidents'[id].state>>}
    /\ UNCHANGED <<detections, tasks, gemini, now, analysis_requests,
                   remediation_requests>>
    /\ UNCHANGED notOrchestrator

\* datetime.now() moves on
Tick ==
    /\ now + reset_timeout <= MaxTime
    /\ now' = now + reset_timeout
    /\ UNCHANGED <<incidents, detections, tasks, gemini, dashboard_updates,
                   analysis_requests, remediation_requests>>
    /\ UNCHANGED notOrchestrator

PolicyIdle ==
    /\ sr_args = [severity |-> "info", analysis |-> AnalyzerFallback]
    /\ sr_result = <<>>

\* No call made on a breaker from outside the handlers: the last operation
\* called, what can_execute() returned, the record_failure() calls since the
\* last record_success(), the record_success() calls of the current
\* half-open trial, the time of the last record_failure(), for the last
\* failure that ended a half-open trial its time and the trial successes
\* counted before it, and the can_execute() calls that returned true since
\* the breaker became half-open with no outcome recorded since (counted up
\* to MaxTrials).
NoBreakerCall ==
    [op |-> "none", returned |-> <<>>, failures |-> 0, successes |-> 0,
     failed_at |-> <<>>, reopened |-> <<>>, trials |-> 0]

BreakerIdle == cb_call = NoBreakerCall

NextOrchestrator ==
    \/ \E id \in IncidentIds, sev \in OrchSeverities :
           HandleIncidentDetected(id, sev)
    \/ \E s \in TaskSlots : DetectedCheckBreaker(s)
    \/ \E s \in TaskSlots, raised \in BOOLEAN : DetectedPublishReturns(s, raised)
    \/ \E id \in EventIds, a \in AnalysisInputs : HandleAnalysisCompleted(id, a)
    \/ \E s \in TaskSlots : AnalysisDecide(s)
    \/ \E id \in EventIds, success \in BOOLEAN, r \in ResultInputs :
           HandleRemediationCompleted(id, success, r)
    \/ Tick

-----------------------------------------------------------------------------
(* RemediationExecutor *)

\* _register_action_handlers: the registry's keys
action_handlers ==
    {"scale_replicas", "restart_pod", "check_pod_logs", "check_cpu_limits",
     "check_memory_limits", "verify_health_checks", "investigate_manually"}

\* A recommended action of an analysis
Action(a, priority) == [action |-> a, priority |-> priority]

\* The recommended_actions lists that remediation.request events carry
ActionLists ==
    { <<>>,
      <<Action("restart_pod", "high"), Action("check_pod_logs", "medium")>>,
      <<Action("scale_replicas", "medium"), Action("restart_pod", "high")>>,
      <<Action("reboot_node", "medium"), Action("check_cpu_limits", "high")>>,
      <<Action("drain_node", "high"), Action("verify_health_checks", "medium")>> }

-----------------------------------------------------------------------------
(* IncidentAnalyzer: _handle_analysis_request, _analyze_incident, the      *)
(* analysis cache (src/src/iro/analysis/analyzer.py)                       *)

\* _cleanup_cache, lines 395-396: the size the cache is cut at, and the
\* number of oldest keys deleted
CacheLimit == 100
OldestKeys == 50

\* The incident of an analysis.request, reduced to what the Analyzer reads
\* for its cache key and its answer; cpu_usage and memory_usage are in
\* thousandths
AnalyzedIncident(id, service, type, severity, cpu, mem) ==
    [id |-> id, service |-> service, type |-> type, severity |-> severity,
     cpu_usage |-> cpu, memory_usage |-> mem]

\* f"{x:.2f}": the hundredths nearest to x thousandths (no x here ends in 5)
Round2(x) == (x + 5) \div 10

\* _get_cache_key, lines 377-391
_get_cache_key(incident) ==
    <<incident.service, incident.type, incident.severity,
      Round2(incident.cpu_usage), Round2(incident.memory_usage)>>

\* _analyze_incident, lines 206-214: the parsed response, with the
\* model_version and incident_id the Analyzer adds
LiveAnalysis(incident) ==
    [has_confidence |-> TRUE, confidence |-> 90, model_version |-> "gemini",
     incident_id |-> incident.id]

\* _get_fallback_analysis, lines 296-331
_get_fallback_analysis(incident) ==
    [has_confidence |-> TRUE, confidence |-> 60, model_version |-> "fallback",
     incident_id |-> incident.id]

\* What the call of the reasoning service comes to: a response that parses,
\* the timeout of wait_for, a response json.loads rejects, another exception
ReasoningOutcomes == {"ok", "timeout", "malformed", "error"}

\* _analyze_incident, lines 198-224
_analyze_incident(incident, outcome) ==
    IF outcome = "ok" THEN LiveAnalysis(incident)
    ELSE _get_fallback_analysis(incident)

\* analysis_cache is a dict: its entries in insertion order
CacheKeys(cache) == {cache[i].key : i \in DOMAIN cache}

\* self.analysis_cache[cache_key]
CacheGet(cache, key) ==
    cache[CHOOSE i \in DOMAIN cache : cache[i].key = key].analysis

\* self.analysis_cache[cache_key] = analysis: a key already there keeps its
\* place, a new key goes last
CachePut(cache, key, analysis) ==
    IF key \in CacheKeys(cache)
      THEN [i \in DOMAIN cache |->
              IF cache[i].key = key
                THEN [key |-> key, analysis |-> analysis] ELSE cache[i]]
      ELSE Append(cache, [key |-> key, analysis |-> analysis])

\* _cleanup_cache that deletes nothing
_cleanup_cache_Never(cache) == cache

\* _cleanup_cache, lines 393-398
_cleanup_cache(cache) ==
    IF Len(cache) > CacheLimit
      THEN SubSeq(cache, OldestKeys + 1, Len(cache))
      ELSE cache

\* the analysis.completed event
AnalysisCompleted(incident_id, analysis) ==
    [incident_id |-> incident_id, analysis |-> analysis]

\* the event of a cache hit carrying the id the analysis was made for
CachedEvent_AnalysisId(incident, cached_analysis) ==
    AnalysisCompleted(cached_analysis.incident_id, cached_analysis)

\* lines 165-171: the event of a cache hit
CachedEvent(incident, cached_analysis) ==
    AnalysisCompleted(incident.id, cached_analysis)

\* a _handle_analysis_request coroutine suspended at an await: at the call
\* of the reasoning service, or in the publish of analysis.completed; path
\* tells how the analysis was come by
AnalyzerSlots == 1..MaxAnalyzerTasks

NoAnalyzerTask == [pc |-> "none", incident |-> <<>>, event |-> <<>>, path |-> ""]

AnalysisIds == {"i1", "i2"}

\* the Analyzer after construction, with a given cache. handled and
\* completed count the analysis.request events handled and the
\* analysis.completed events published, by incident id; calls counts the
\* calls of the reasoning service; fallbacks holds the keys a fallback
\* analysis was stored under and that were not deleted since
NewAnalyzer(cache) ==
    [cache |-> cache,
     tasks |-> [s \in AnalyzerSlots |-> NoAnalyzerTask],
     handled |-> [id \in AnalysisIds |-> 0],
     completed |-> [id \in AnalysisIds |-> 0],
     calls |-> 0,
     fallbacks |-> {}]

AnalyzerIdle == analyzer = NewAnalyzer(<<>>)

\* what the Analyzer's handlers leave alone
notAnalyzer ==
    <<config, orchVars, policyVars, breakerVars, execVars, parseVars,
      lifeVars, detectorVars>>

Sum(f) ==
    LET RECURSIVE S(_)
        S(D) == IF D = {} THEN 0
                ELSE LET x == CHOOSE x \in D : TRUE IN f[x] + S(D \ {x})
    IN  S(DOMAIN f)

\* _handle_analysis_request, lines 154-174: a cache hit publishes the cached
\* analysis; a miss goes to _analyze_incident, which suspends in the call
\* of the reasoning service
HandleAnalysisRequest(s, incident) ==
    /\ analyzer.tasks[s].pc = "none"
    /\ \A t \in AnalyzerSlots : t < s => analyzer.tasks[t].pc # "none"
    /\ Sum(analyzer.handled) < MaxAnalysisRequests
    /\ LET cache_key == _get_cache_key(incident)
           hit == cache_key \in CacheKeys(analyzer.cache)
           event == CachedEvent(incident, CacheGet(analyzer.cache, cache_key))
       IN  analyzer' = [analyzer EXCEPT
               !.handled[incident.id] = @ + 1,
               !.tasks[s] =
                   IF hit
                     THEN [pc |-> "publishing", incident |-> incident,
                           event |-> <<event>>, path |-> "cache"]
                     ELSE [pc |-> "calling", incident |-> incident,
                           event |-> <<>>, path |-> ""],
               !.completed = IF hit
                               THEN [@ EXCEPT ![event.incident_id] = @ + 1]
                               ELSE @,
               !.calls = IF hit THEN @ ELSE @ + 1]
    /\ UNCHANGED notAnalyzer

\* the handler reporting a failed reasoning call to the Orchestrator's
\* 'gemini' breaker
ReasoningReturns_RecordsFailure(s, outcome) ==
    /\ analyzer.tasks[s].pc = "calling"
    /\ LET incident == analyzer.tasks[s].incident
           cache_key == _get_cache_key(incident)
           analysis == _analyze_incident(incident, outcome)
           cache == _cleanup_cache(CachePut(analyzer.cache, cache_key, analysis))
           event == AnalysisCompleted(incident.id, analysis)
       IN  analyzer' = [analyzer EXCEPT
               !.cache = cache,
               !.fallbacks =
                   (IF outcome = "ok" THEN @ ELSE @ \cup {cache_key})
                     \cap CacheKeys(cache),
               !.tasks[s] = [pc |-> "publishing", incident |-> incident,
                             event |-> <<event>>,
                             path |-> IF outcome = "ok" THEN "live"
                                      ELSE "fallback"],
               !.completed[event.incident_id] = @ + 1]
    /\ gemini' = IF outcome = "ok" THEN gemini ELSE record_failure(gemini, now)
    /\ UNCHANGED <<config, incidents, detections, tasks, now, dashboard_updates,
                   analysis_requests, remediation_requests, policyVars,
                   breakerVars, execVars, parseVars, lifeVars, detectorVars>>

\* lines 174-186: _analyze_incident is over, with the live analysis or the
\* fallback; the result is cached, the cache cleaned, the event published
ReasoningReturns(s, outcome) ==
    /\ analyzer.tasks[s].pc = "calling"
    /\ LET incident == analyzer.tasks[s].incident
           cache_key == _get_cache_key(incident)
           analysis == _analyze_incident(incident, outcome)
           cache == _cleanup_cache(CachePut(analyzer.cache, cache_key, analysis))
           event == AnalysisCompleted(incident.id, analysis)
       IN  analyzer' = [analyzer EXCEPT
               !.cache = cache,
               !.fallbacks =
                   (IF outcome = "ok" THEN @ ELSE @ \cup {cache_key})
                     \cap CacheKeys(cache),
               !.tasks[s] = [pc |-> "publishing", incident |-> incident,
                             event |-> <<event>>,
                             path |-> IF outcome = "ok" THEN "live"
                                      ELSE "fallback"],
               !.completed[event.incident_id] = @ + 1]
    /\ UNCHANGED notAnalyzer

\* the publish has returned (lines 171-172, 186-190): the handler is over
AnalysisPublishReturns(s) ==
    /\ analyzer.tasks[s].pc = "publishing"
    /\ analyzer' = [analyzer EXCEPT !.tasks[s] = NoAnalyzerTask]
    /\ UNCHANGED notAnalyzer

\* the incidents of the analysis.request events: two incidents of one
\* service whose cpu usage rounds to the same hundredth, and the second of
\* them again with a cpu usage that does not
AnalysisRequests ==
    {AnalyzedIncident("i1", "frontend", "high_cpu", "critical", 851, 500),
     AnalyzedIncident("i2", "frontend", "high_cpu", "critical", 854, 500),
     AnalyzedIncident("i2", "frontend", "high_cpu", "critical", 856, 500)}

NextAnalyzer ==
    \/ \E s \in AnalyzerSlots, incident \in AnalysisRequests :
           HandleAnalysisRequest(s, incident)
    \/ \E s \in AnalyzerSlots, outcome \in ReasoningOutcomes :
           ReasoningReturns(s, outcome)
    \/ \E s \in AnalyzerSlots : AnalysisPublishReturns(s)

-----------------------------------------------------------------------------
(* Orchestrator.start(), Orchestrator.stop(), the Detector's monitoring    *)
(* loop and the Orchestrator's maintenance loop.                           *)

\* the components, in the order start() starts them
Components == {"detector", "analyzer", "executor", "dashboard"}

\* a component: its running flag, and its stop() coroutine
Component(running, stop) == [running |-> running, stop |-> stop]

\* the state after construction: nothing started, no task created
NoLife ==
    [running |-> FALSE,
     start |-> "not_called",
     stop |-> "not_called",
     components |-> [c \in Components |-> Component(FALSE, "not_called")],
     monitor |-> "none",
     cycles |-> 0,
     incident_detected |-> 0,
     loop |-> "none",
     passes |-> 0,
     health_checks |-> 0]

LifeIdle == life = NoLife

\* seconds in an hour, and in the 24 hours of the cleanup
Hour == 3600
Day == 24 * Hour

\* datetime.hour
HourOf(t) == (t \div Hour) % 24

\* datetime.replace(hour=h): the same day, minute and second with another
\* hour; <<>> is the ValueError for an hour outside 0..23
replace_hour(t, h) ==
    IF h \in 0..23 THEN <<t - HourOf(t) * Hour + h * Hour>> ELSE <<>>

\* _cleanup_old_incidents, lines 344-359, on the registry at time t: what it
\* leaves in the registry, and whether it raised
_cleanup_old_incidents(registry, t) ==
    LET cutoff_time == replace_hour(t, HourOf(t) - 24)
        to_remove ==
            IF cutoff_time = <<>> THEN {}
            ELSE {id \in DOMAIN registry :
                     /\ registry[id].state \in TerminalStates
                     /\ registry[id].updated_at < cutoff_time[1]}
    IN  [raised |-> cutoff_time = <<>>,
         incidents |-> [id \in DOMAIN registry \ to_remove |-> registry[id]]]

\* asyncio.gather(..., return_exceptions=True) of stop(), once the four
\* stop() coroutines are over: an exception is a result in the list
GatherOutcome_Propagates(results) ==
    IF \E c \in Components : results[c] = "raised"
      THEN "raised" ELSE "returned"

GatherOutcome(results) == "returned"

\* stop(), lines 81-92, up to the await of the gather: running is False and
\* the four stop() coroutines exist
StopCalled(l) ==
    [l EXCEPT !.running = FALSE,
              !.stop = "gathering",
              !.components =
                  [c \in Components |-> [l.components[c] EXCEPT !.stop = "called"]]]

\* start(), lines 59-65: Detector.start() is called and suspends in
\* k8s_manager.initialize()
StartBegin ==
    /\ life.start = "not_called"
    /\ life' = [life EXCEPT !.start = "detector_initialize"]
    /\ UNCHANGED <<incidents, now, detector>>
    /\ UNCHANGED notLife

\* the await start() is suspended in returns, or raises (raised names the
\* component whose start() raises, "none" for none). Detector.start() then
\* sets running and creates the monitoring task (detector.py, 53-56);
\* Analyzer.start() has no suspension point, so it runs in the same
\* stretch; Executor.start() suspends in k8s_manager.initialize() and then
\* sets running and creates the workers; Dashboard.start() suspends in
\* runner.setup() and site.start(); then running is set and the maintenance
\* loop's task is created (orchestrator.py, 70-74). An exception takes
\* start() to its except clause, which awaits stop().
StartResumes(raised) ==
    /\ \/ /\ life.start = "detector_initialize"
          /\ raised \in {"none", "detector", "analyzer"}
       \/ /\ life.start = "executor_initialize"
          /\ raised \in {"none", "executor"}
       \/ /\ life.start = "dashboard_setup"
          /\ raised \in {"none", "dashboard"}
    /\ LET started ==
              CASE life.start = "detector_initialize" /\ raised = "none" ->
                     [life EXCEPT !.start = "executor_initialize",
                                  !.components["detector"].running = TRUE,
                                  !.components["analyzer"].running = TRUE,
                                  !.monitor = "created"]
                [] life.start = "detector_initialize" /\ raised = "analyzer" ->
                     [life EXCEPT !.components["detector"].running = TRUE,
                                  !.monitor = "created"]
                [] life.start = "executor_initialize" /\ raised = "none" ->
                     [life EXCEPT !.start = "dashboard_setup",
                                  !.components["executor"].running = TRUE]
                [] life.start = "dashboard_setup" /\ raised = "none" ->
                     [life EXCEPT !.start = "returned",
                                  !.components["dashboard"].running = TRUE,
                                  !.running = TRUE,
                                  !.loop = "sleeping"]
                [] OTHER -> life
       IN  life' = IF raised = "none"
                     THEN started
                     ELSE [StopCalled(started) EXCEPT !.start = "stopping"]
    /\ UNCHANGED <<incidents, now, detector>>
    /\ UNCHANGED notLife

\* stop() called from outside, after start() returned
StopBegin ==
    /\ life.start = "returned"
    /\ life.stop = "not_called"
    /\ life' = StopCalled(life)
    /\ UNCHANGED <<incidents, now, detector>>
    /\ UNCHANGED notLife

\* the stop() of component c runs, and returns or raises: its running flag
\* is cleared first (detector.py:67, analyzer.py:60, executor.py:77,
\* server.py stop), and Detector.stop() cancels the monitoring task and
\* awaits it (detector.py, 69-74)
ComponentStop(c, raised) ==
    /\ life.components[c].stop = "called"
    /\ life' = [life EXCEPT
           !.components[c] =
               Component(FALSE, IF raised THEN "raised" ELSE "returned"),
           !.monitor = IF c = "detector" /\ @ \notin {"none", "exited"}
                         THEN "cancelled" ELSE @]
    /\ UNCHANGED <<incidents, now, detector>>
    /\ UNCHANGED notLife

\* the gather of stop() is over; stop() returns, or raises what the gather
\* raised; a start() that was awaiting it re-raises (orchestrator.py, 76-79)
StopEnd ==
    /\ life.stop = "gathering"
    /\ \A c \in Components : life.components[c].stop \in {"returned", "raised"}
    /\ life' = [life EXCEPT
           !.stop = GatherOutcome([c \in Components |-> life.components[c].stop]),
           !.start = IF @ = "stopping" THEN "raised" ELSE @]
    /\ UNCHANGED <<incidents, now, detector>>
    /\ UNCHANGED notLife

\* config.monitoring.services: the services monitored
Services == {"frontend", "ledgerwriter"}

\* _store_metrics_history, line 328: the entries a history keeps
HistoryLimit == 100

\* The Detector after construction, with given histories. metrics_history
\* is a dict of lists: <<>> stands for a service with no entry yet. A
\* snapshot (ServiceMetrics) is told by the cycle that collected it; cycle
\* numbers the cycles begun, all_metrics holds the services the current
\* cycle has a snapshot of.
NewDetector(metrics_history, cycle) ==
    [metrics_history |-> metrics_history, cycle |-> cycle, all_metrics |-> {}]

DetectorIdle == detector = NewDetector([svc \in Services |-> <<>>], 0)

\* history.append(metric) with pop(-1) in the place of pop(0)
StoreSnapshot_DropsNewest(history, metric) ==
    IF Len(history) + 1 > HistoryLimit THEN history ELSE Append(history, metric)

\* lines 324-329: history.append(metric), then pop(0) beyond 100 entries
StoreSnapshot(history, metric) ==
    LET appended == Append(history, metric)
    IN  IF Len(appended) > HistoryLimit THEN Tail(appended) ELSE appended

\* _store_metrics_history, lines 318-329, for the snapshots of one cycle
_store_metrics_history(metrics_history, all_metrics, cycle) ==
    [svc \in Services |->
        IF svc \in all_metrics
          THEN StoreSnapshot(metrics_history[svc], cycle)
          ELSE metrics_history[svc]]

\* lines 117-124: the end of a cycle, the history stored before the sleep
CycleStored(d) ==
    [d EXCEPT !.metrics_history =
                  _store_metrics_history(d.metrics_history, d.all_metrics, d.cycle),
              !.all_metrics = {}]

\* _monitoring_loop, lines 103-109: the task runs for the first time, or its
\* sleep is over; `while self.running`, then a cycle begins and suspends in
\* the calls of _collect_all_metrics
MonitorCycle ==
    /\ life.monitor \in {"created", "sleeping"}
    /\ life.cycles < MaxCycles
    /\ life' = IF life.components["detector"].running
                 THEN [life EXCEPT !.monitor = "collecting", !.cycles = @ + 1]
                 ELSE [life EXCEPT !.monitor = "exited"]
    /\ detector' = IF life.components["detector"].running
                     THEN [detector EXCEPT !.cycle = @ + 1, !.all_metrics = {}]
                     ELSE detector
    /\ UNCHANGED <<incidents, now>>
    /\ UNCHANGED notLife

\* lines 109-124: the metrics are in, for the services in collected (a
\* service whose pods are not found or whose collection failed has none,
\* lines 130-141); with an anomaly among them _process_anomaly publishes
\* incident.detected (detector.py:308), otherwise the history is stored and
\* the loop sleeps
MonitorCollected(collected, anomaly) ==
    /\ life.monitor = "collecting"
    /\ anomaly => collected # {}
    /\ life' = IF anomaly
                 THEN [life EXCEPT !.monitor = "publishing",
                                   !.incident_detected = @ + 1]
                 ELSE [life EXCEPT !.monitor = "sleeping"]
    /\ detector' = IF anomaly
                     THEN [detector EXCEPT !.all_metrics = collected]
                     ELSE CycleStored([detector EXCEPT !.all_metrics = collected])
    /\ UNCHANGED <<incidents, now>>
    /\ UNCHANGED notLife

\* the publish has returned; lines 117-124, the history is stored and the
\* loop sleeps
MonitorPublished ==
    /\ life.monitor = "publishing"
    /\ life' = [life EXCEPT !.monitor = "sleeping"]
    /\ detector' = CycleStored(detector)
    /\ UNCHANGED <<incidents, now>>
    /\ UNCHANGED notLife

\* _orchestration_loop, lines 326-342: the sleep of 60 s is over. The pass
\* runs _cleanup_old_incidents, then _check_circuit_breakers (it only
\* logs), then publishes health.check; an exception ends the pass in the
\* except clause, which logs it. Then `while self.running` decides between
\* the next sleep and the end of the loop.
MaintenancePass ==
    /\ life.loop = "sleeping"
    /\ life.passes < MaxPasses
    /\ now' = now + 60
    /\ LET cleanup == _cleanup_old_incidents(incidents, now')
       IN  /\ incidents' = cleanup.incidents
           /\ life' = [life EXCEPT
                  !.passes = @ + 1,
                  !.health_checks = IF cleanup.raised THEN @ ELSE @ + 1,
                  !.loop = IF life.running THEN "sleeping" ELSE "exited"]
    /\ UNCHANGED detector
    /\ UNCHANGED notLife

NextLife ==
    \/ StartBegin
    \/ \E raised \in {"none"} \cup Components : StartResumes(raised)
    \/ StopBegin
    \/ \E c \in Components, raised \in BOOLEAN : ComponentStop(c, raised)
    \/ StopEnd
    \/ MonitorCycle
    \/ \E collected \in SUBSET Services, anomaly \in BOOLEAN :
           MonitorCollected(collected, anomaly)
    \/ MonitorPublished
    \/ MaintenancePass

-----------------------------------------------------------------------------
(* _parse_time_estimate, lines 566-577. A str is a sequence of characters. *)

\* the characters estimated_time texts are made of: digits, the three
\* suffixes, an upper-case suffix, another letter, a blank
Chars == {"0", "1", "5", "s", "m", "h", "M", "x", " "}
Digits == {"0", "1", "5"}

RECURSIVE Strings(_)
\* the texts of n characters
Strings(n) ==
    IF n = 0 THEN {<<>>}
    ELSE {Append(str, c) : str \in Strings(n - 1), c \in Chars}

\* str.lower()
lower(str) == [i \in DOMAIN str |-> IF str[i] = "M" THEN "m" ELSE str[i]]

RECURSIVE lstrip(_)
lstrip(str) ==
    IF str # <<>> /\ Head(str) = " " THEN lstrip(Tail(str)) ELSE str

RECURSIVE rstrip(_)
rstrip(str) ==
    IF str # <<>> /\ str[Len(str)] = " "
      THEN rstrip(SubSeq(str, 1, Len(str) - 1))
      ELSE str

\* str.strip()
strip(str) == rstrip(lstrip(str))

\* str.endswith(c)
endswith(str, c) == str # <<>> /\ str[Len(str)] = c

\* int(c) of one digit
DigitValue(c) == CASE c = "0" -> 0 [] c = "1" -> 1 [] c = "5" -> 5

RECURSIVE Decimal(_)
\* the number a text of digits denotes
Decimal(str) ==
    IF str = <<>> THEN 0
    ELSE 10 * Decimal(SubSeq(str, 1, Len(str) - 1)) + DigitValue(str[Len(str)])

\* int(str) accepts digits with blanks around them; anything else of these
\* characters, the empty text included, is a ValueError
IsInt(str) ==
    /\ strip(str) # <<>>
    /\ \A i \in DOMAIN strip(str) : strip(str)[i] \in Digits

Returned(n) == [raised |-> FALSE, value |-> n]
Raised == [raised |-> TRUE, value |-> 0]

\* int(time_str[:-1]) * k
IntTimes(str, k) ==
    LET body == SubSeq(str, 1, Len(str) - 1)
    IN  IF IsInt(body) THEN Returned(Decimal(strip(body)) * k) ELSE Raised

_parse_time_estimate(time_str) ==
    LET str == strip(lower(time_str))
    IN  IF endswith(str, "s") THEN IntTimes(str, 1)
        ELSE IF endswith(str, "m") THEN IntTimes(str, 60)
        ELSE IF endswith(str, "h") THEN IntTimes(str, 3600)
        ELSE Returned(300)

\* no call made yet: the text, the outcome of _parse_time_estimate, and the
\* timeout_seconds of the step _create_remediation_plan built with it
NoParseCall(time_str) ==
    [time_str |-> time_str, outcome |-> <<>>, timeout_seconds |-> <<>>]

ParseIdle == parse_call = NoParseCall(<<>>)

\* _create_remediation_plan, lines 158-167, for one recommended action whose
\* estimated_time is the text: the RemediationStep gets what
\* _parse_time_estimate returns; a ValueError leaves _create_remediation_plan
\* and is logged by _handle_remediation_request (line 135), and no step and
\* no plan is made.
CallParseTimeEstimate ==
    /\ parse_call.outcome = <<>>
    /\ LET r == _parse_time_estimate(parse_call.time_str)
       IN  parse_call' = [parse_call EXCEPT
               !.outcome = <<r>>,
               !.timeout_seconds = IF r.raised THEN <<>> ELSE <<r.value>>]
    /\ UNCHANGED <<config, orchVars, policyVars, breakerVars, execVars,
                   lifeVars, compVars>>

-----------------------------------------------------------------------------
\* What an invoked handler does: returns, raises, or outlives the timeout
HandlerOutcomes == {"ok", "handler_error", "timeout"}

\* RemediationStep(...), lines 159-166; the outcome fields start unset.
\* handler_called records that _execute_step invoked the step's handler
\* (the call into the cluster).
NewStep(action) ==
    [name |-> action.action, action_type |-> action.action,
     continue_on_error |-> (action.priority # "high"),
     started |-> FALSE, handler_called |-> FALSE, completed |-> FALSE,
     success |-> FALSE, output |-> <<>>, error_message |-> ""]

_create_remediation_plan(incident_id, actions) ==
    [incident_id |-> incident_id,
     steps |-> [i \in 1..Len(actions) |-> NewStep(actions[i])],
     execution_state |-> "pending", success |-> FALSE]

\* _execute_step, lines 279-283
StepSucceeded(step) ==
    [step EXCEPT !.success = TRUE, !.completed = TRUE,
                 !.output = <<"result", step.action_type>>]

\* _execute_step losing the error of a failed step
StepFailed_ErrorLost(step, message) ==
    [step EXCEPT !.success = FALSE, !.completed = TRUE]

\* _execute_step, lines 285-295
StepFailed(step, message) ==
    [step EXCEPT !.success = FALSE, !.completed = TRUE,
                 !.error_message = message]

\* _dry_run_execution with the marker left out of the output
DryRunStep_NoMarker(step) ==
    [step EXCEPT !.started = TRUE, !.success = TRUE, !.completed = TRUE,
                 !.output = <<"result", step.action_type>>]

\* _dry_run_execution, lines 303-306, for one step
DryRunStep(step) ==
    [step EXCEPT !.started = TRUE, !.success = TRUE, !.completed = TRUE,
                 !.output = <<"DRY RUN", step.action_type>>]

\* line 223 without the break
StopsPlan_Never(step_success, step) == FALSE

\* line 223 ignoring continue_on_error
StopsPlan_AnyFailure(step_success, step) == ~step_success

\* line 223: not step_success and not step.continue_on_error
StopsPlan(step_success, step) == ~step_success /\ ~step.continue_on_error

\* f"Step '{step.name}' failed: {step.error_message}"
StepError(step) == <<step.name, step.error_message>>

\* The for loop of _execute_remediation_plan from step i on, as far as it
\* runs without suspending: a step whose action type has no handler fails
\* inside _execute_step at once; a step with a handler suspends in it.
RECURSIVE RunSteps(_, _)
RunSteps(plan, i) ==
    IF i > Len(plan.steps)
      THEN [plan |-> plan, in_handler |-> FALSE, idx |-> i,
            success |-> TRUE, error |-> <<>>]
      ELSE LET step == [plan.steps[i] EXCEPT !.started = TRUE] IN
           IF step.action_type \notin action_handlers
             THEN LET failed == StepFailed(step, "unknown_action")
                      p2 == [plan EXCEPT !.steps[i] = failed]
                  IN  IF StopsPlan(FALSE, failed)
                        THEN [plan |-> p2, in_handler |-> FALSE, idx |-> i,
                              success |-> FALSE, error |-> StepError(failed)]
                        ELSE RunSteps(p2, i + 1)
             ELSE [plan |-> [plan EXCEPT !.steps[i] =
                                [step EXCEPT !.handler_called = TRUE]],
                   in_handler |-> TRUE, idx |-> i,
                   success |-> TRUE, error |-> <<>>]

PlanIds == 1..MaxPlans
Workers == 1..max_concurrent

\* A worker coroutine: where it is suspended (pc), the plan it runs, the
\* step it is at, and, while it is suspended in the publish, the payload.
Worker(pc, pid, idx, event) ==
    [pc |-> pc, plan |-> pid, idx |-> idx, event |-> event]

IdleWorker == Worker("idle", 0, 0, <<>>)

\* A plan nothing refers to any more, once its worker is back at the queue
DestroyedPlan ==
    [incident_id |-> "", steps |-> <<>>, execution_state |-> "destroyed",
     success |-> FALSE]

\* the remediation.completed payload, lines 243-254
CompletionEvent(pid, plan, success, error) ==
    [incident_id |-> plan.incident_id, plan_id |-> pid, success |-> success,
     error |-> error,
     result |-> [execution_state |-> plan.execution_state,
                 steps_completed |->
                     Cardinality({i \in DOMAIN plan.steps : plan.steps[i].success}),
                 total_steps |-> Len(plan.steps)]]

\* the finally block publishing only when the plan succeeded
Finalize_PublishOnSuccessOnly(w, pid, plan, success, error) ==
    LET done == [plan EXCEPT
                    !.execution_state = IF success THEN "completed" ELSE "failed",
                    !.success = success]
    IN  /\ plans' = [plans EXCEPT ![pid] = done]
        /\ active_executions' = active_executions \ {pid}
        /\ remediation_completed' =
               IF success
                 THEN [remediation_completed EXCEPT ![pid] = @ + 1]
                 ELSE remediation_completed
        /\ workers' = [workers EXCEPT ![w] =
               Worker("publishing", pid, 0,
                      IF success
                        THEN <<CompletionEvent(pid, done, success, error)>>
                        ELSE <<>>)]

\* the finally block without the pop from active_executions
Finalize_KeepActive(w, pid, plan, success, error) ==
    LET done == [plan EXCEPT
                    !.execution_state = IF success THEN "completed" ELSE "failed",
                    !.success = success]
    IN  /\ plans' = [plans EXCEPT ![pid] = done]
        /\ active_executions' = active_executions
        /\ remediation_completed' = [remediation_completed EXCEPT ![pid] = @ + 1]
        /\ workers' = [workers EXCEPT ![w] =
               Worker("publishing", pid, 0,
                      <<CompletionEvent(pid, done, success, error)>>)]

\* the finally block popping the plan only when it succeeded
Finalize_PopOnSuccessOnly(w, pid, plan, success, error) ==
    LET done == [plan EXCEPT
                    !.execution_state = IF success THEN "completed" ELSE "failed",
                    !.success = success]
    IN  /\ plans' = [plans EXCEPT ![pid] = done]
        /\ active_executions' =
               IF success THEN active_executions \ {pid} ELSE active_executions
        /\ remediation_completed' = [remediation_completed EXCEPT ![pid] = @ + 1]
        /\ workers' = [workers EXCEPT ![w] =
               Worker("publishing", pid, 0,
                      <<CompletionEvent(pid, done, success, error)>>)]

\* _execute_remediation_plan, the finally block, lines 233-254: set the
\* plan's outcome, pop it from active_executions, publish
\* remediation.completed (the worker suspends in the publish).
Finalize(w, pid, plan, success, error) ==
    LET done == [plan EXCEPT
                    !.execution_state = IF success THEN "completed" ELSE "failed",
                    !.success = success]
    IN  /\ plans' = [plans EXCEPT ![pid] = done]
        /\ active_executions' = active_executions \ {pid}
        /\ remediation_completed' = [remediation_completed EXCEPT ![pid] = @ + 1]
        /\ workers' = [workers EXCEPT ![w] =
               Worker("publishing", pid, 0,
                      <<CompletionEvent(pid, done, success, error)>>)]

\* Worker w goes on with plan pid after RunSteps gave r: it is suspended in
\* the handler of step r.idx, or the loop is over and the finally block runs.
Proceed(w, pid, r, active) ==
    IF r.in_handler
      THEN /\ plans' = [plans EXCEPT ![pid] = r.plan]
           /\ workers' = [workers EXCEPT ![w] =
                  Worker("in_handler", pid, r.idx, <<>>)]
           /\ active_executions' = active
           /\ UNCHANGED remediation_completed
      ELSE Finalize(w, pid, r.plan, r.success, r.error)

ExecInit ==
    /\ exec_running = FALSE
    /\ plans = <<>>
    /\ execution_queue = <<>>
    /\ putters = {}
    /\ active_executions = {}
    /\ workers = [w \in Workers |-> Worker("not_started", 0, 0, <<>>)]
    /\ remediation_completed = [p \in PlanIds |-> 0]

\* start(), lines 61-66: running, and one worker task per max_concurrent
ExecutorStart ==
    /\ ~exec_running
    /\ exec_running' = TRUE
    /\ workers' = [w \in Workers |-> IdleWorker]
    /\ UNCHANGED <<plans, execution_queue, putters, active_executions,
                   remediation_completed>>
    /\ UNCHANGED notExecutor

\* _handle_remediation_request, lines 111-136: build the plan; return if it
\* has no steps (lines 124-126: the plan built is left behind, pending, and
\* nothing is queued or published); otherwise
\* `await self.execution_queue.put(...)`, which enqueues at once when there
\* is room and suspends the handler when the queue is full
\* (asyncio.Queue.put waits for a free slot).
HandleRemediationRequest(incident_id, actions) ==
    /\ Len(plans) < MaxPlans
    /\ LET plan == _create_remediation_plan(incident_id, actions)
           pid == Len(plans) + 1
       IN  IF Len(plan.steps) = 0
             THEN /\ plans' = Append(plans, plan)
                  /\ UNCHANGED <<execution_queue, putters>>
             ELSE /\ plans' = Append(plans, plan)
                  /\ IF Len(execution_queue) < max_concurrent
                       THEN /\ execution_queue' = Append(execution_queue, pid)
                            /\ UNCHANGED putters
                       ELSE /\ putters' = putters \cup {pid}
                            /\ UNCHANGED execution_queue
    /\ UNCHANGED <<exec_running, active_executions, workers,
                   remediation_completed>>
    /\ UNCHANGED notExecutor

\* a handler suspended in put() resumes once the queue has room
PutResumes(pid) ==
    /\ pid \in putters
    /\ Len(execution_queue) < max_concurrent
    /\ execution_queue' = Append(execution_queue, pid)
    /\ putters' = putters \ {pid}
    /\ UNCHANGED <<exec_running, plans, active_executions, workers,
                   remediation_completed>>
    /\ UNCHANGED notExecutor

\* _execution_worker, lines 180-188, and _execute_remediation_plan, lines
\* 204-221: take the oldest pair from the queue, mark the plan executing,
\* enter it in active_executions and run it up to the first await.
WorkerTakesPlan(w) ==
    /\ exec_running
    /\ workers[w].pc = "idle"
    /\ execution_queue # <<>>
    /\ LET pid == Head(execution_queue)
           plan == [plans[pid] EXCEPT !.execution_state = "executing"]
       IN  /\ execution_queue' = Tail(execution_queue)
           /\ IF config.dry_run
                THEN /\ plans' = [plans EXCEPT ![pid] =
                            [plan EXCEPT !.steps[1] = DryRunStep(@)]]
                     /\ workers' = [workers EXCEPT ![w] =
                            Worker("dry_run_sleep", pid, 1, <<>>)]
                     /\ active_executions' = active_executions \cup {pid}
                     /\ UNCHANGED remediation_completed
                ELSE Proceed(w, pid, RunSteps(plan, 1),
                             active_executions \cup {pid})
    /\ UNCHANGED <<exec_running, putters>>
    /\ UNCHANGED notExecutor

\* _execute_step, lines 274-298, when the awaited handler is over, and the
\* loop of _execute_remediation_plan, lines 221-226, up to the next await
HandlerReturns(w, outcome) ==
    /\ workers[w].pc = "in_handler"
    /\ LET pid == workers[w].plan
           i == workers[w].idx
           step == IF outcome = "ok"
                     THEN StepSucceeded(plans[pid].steps[i])
                     ELSE StepFailed(plans[pid].steps[i], outcome)
           plan == [plans[pid] EXCEPT !.steps[i] = step]
       IN  IF StopsPlan(outcome = "ok", step)
             THEN Finalize(w, pid, plan, FALSE, StepError(step))
             ELSE Proceed(w, pid, RunSteps(plan, i + 1), active_executions)
    /\ UNCHANGED <<exec_running, execution_queue, putters>>
    /\ UNCHANGED notExecutor

\* _dry_run_execution, lines 302-309, when asyncio.sleep(0.1) is over: the
\* next step, or the end of the dry run and the finally block
DryRunSleepReturns(w) ==
    /\ workers[w].pc = "dry_run_sleep"
    /\ LET pid == workers[w].plan
           i == workers[w].idx
       IN  IF i < Len(plans[pid].steps)
             THEN /\ plans' = [plans EXCEPT ![pid].steps[i + 1] = DryRunStep(@)]
                  /\ workers' = [workers EXCEPT ![w].idx = i + 1]
                  /\ UNCHANGED <<active_executions, remediation_completed>>
             ELSE Finalize(w, pid, plans[pid], TRUE, <<>>)
    /\ UNCHANGED <<exec_running, execution_queue, putters>>
    /\ UNCHANGED notExecutor

\* the publish of remediation.completed returned: _execute_remediation_plan
\* is over, the worker is back at the queue and lets go of the plan
PublishReturns(w) ==
    /\ workers[w].pc = "publishing"
    /\ workers' = [workers EXCEPT ![w] = IdleWorker]
    /\ plans' = [plans EXCEPT ![workers[w].plan] = DestroyedPlan]
    /\ UNCHANGED <<exec_running, execution_queue, putters,
                   active_executions, remediation_completed>>
    /\ UNCHANGED notExecutor

NextExecutor ==
    \/ ExecutorStart
    \/ \E id \in EventIds, actions \in ActionLists :
           HandleRemediationRequest(id, actions)
    \/ \E pid \in PlanIds : PutResumes(pid)
    \/ \E w \in Workers : WorkerTakesPlan(w)
    \/ \E w \in Workers, outcome \in HandlerOutcomes : HandlerReturns(w, outcome)
    \/ \E w \in Workers : DryRunSleepReturns(w)
    \/ \E w \in Workers : PublishReturns(w)

-----------------------------------------------------------------------------
(* RemediationExecutor.stop(): running is set to False and every worker     *)
(* task is cancelled. A cancelled task gets CancelledError at the await it  *)
(* is suspended in, the next time it runs; CancelledError is not an         *)
(* Exception, so no `except Exception` clause catches it.                   *)

\* the suspension points of a worker task
Suspended == {"idle", "in_handler", "dry_run_sleep", "publishing"}

\* a suspension point at which a cancellation is pending
Cancelling ==
    [pc \in Suspended |->
        CASE pc = "idle" -> "cancelling_idle"
          [] pc = "in_handler" -> "cancelling_in_handler"
          [] pc = "dry_run_sleep" -> "cancelling_dry_run_sleep"
          [] pc = "publishing" -> "cancelling_publishing"]

\* task.cancel() on a worker: the same suspension point, with the
\* cancellation requested
CancelRequested(worker) ==
    IF worker.pc \in Suspended
      THEN [worker EXCEPT !.pc = Cancelling[worker.pc]]
      ELSE worker

\* the worker task is over
CancelledWorker == Worker("cancelled", 0, 0, <<>>)

\* start(), called once
ExecutorStartOnce ==
    /\ \A w \in Workers : workers[w].pc = "not_started"
    /\ ExecutorStart

\* stop(), lines 74-81
ExecutorStop ==
    /\ exec_running
    /\ exec_running' = FALSE
    /\ workers' = [w \in Workers |-> CancelRequested(workers[w])]
    /\ UNCHANGED <<plans, execution_queue, putters, active_executions,
                   remediation_completed>>
    /\ UNCHANGED notExecutor

\* CancelledError raised in worker w. At the queue, or in the publish of
\* the finally block, it ends the task. In a handler it leaves
\* _execute_step through its finally (completed_at), and in the dry run's
\* sleep it leaves _dry_run_execution; either way it passes the
\* `except Exception` of _execute_remediation_plan, whose finally block
\* runs with success still True and error_message None, and it ends the
\* task once the publish there has returned (the worker is then back at
\* `while self.running` of a stopped executor).
WorkerCancelled(w) ==
    /\ workers[w].pc \in {Cancelling[pc] : pc \in Suspended}
    /\ LET at == CHOOSE pc \in Suspended : Cancelling[pc] = workers[w].pc
           pid == workers[w].plan
           i == workers[w].idx
       IN  CASE at = "idle" ->
                  /\ workers' = [workers EXCEPT ![w] = CancelledWorker]
                  /\ UNCHANGED <<plans, active_executions,
                                 remediation_completed>>
             [] at = "publishing" ->
                  /\ workers' = [workers EXCEPT ![w] = CancelledWorker]
                  /\ plans' = [plans EXCEPT ![pid] = DestroyedPlan]
                  /\ UNCHANGED <<active_executions, remediation_completed>>
             [] at = "in_handler" ->
                  Finalize(w, pid,
                           [plans[pid] EXCEPT !.steps[i].completed = TRUE],
                           TRUE, <<>>)
             [] at = "dry_run_sleep" ->
                  Finalize(w, pid, plans[pid], TRUE, <<>>)
    /\ UNCHANGED <<exec_running, execution_queue, putters>>
    /\ UNCHANGED notExecutor

NextExecutorStop ==
    \/ ExecutorStartOnce
    \/ \E id \in EventIds, actions \in ActionLists :
           HandleRemediationRequest(id, actions)
    \/ \E pid \in PlanIds : PutResumes(pid)
    \/ \E w \in Workers : WorkerTakesPlan(w)
    \/ \E w \in Workers, outcome \in HandlerOutcomes : HandlerReturns(w, outcome)
    \/ \E w \in Workers : DryRunSleepReturns(w)
    \/ \E w \in Workers : PublishReturns(w)
    \/ ExecutorStop
    \/ \E w \in Workers : WorkerCancelled(w)

InitExecutor ==
    /\ config \in {c \in Configs : ~c.require_approval}
    /\ OrchInit
    /\ PolicyIdle
    /\ BreakerIdle
    /\ ExecInit
    /\ AnalyzerIdle
    /\ DetectorIdle
    /\ ParseIdle
    /\ LifeIdle

SpecExecutor == InitExecutor /\ [][NextExecutor]_vars

\* The Executor with its tasks scheduled: start() is called, a handler
\* waiting in put() resumes once there is room, an idle worker takes the
\* plan at the head of the queue, and every step, dry run and publish a
\* worker waits for returns or times out.
FairExecutor ==
    /\ WF_vars(ExecutorStart)
    /\ WF_vars(\E pid \in PlanIds : PutResumes(pid))
    /\ \A w \in Workers :
           /\ WF_vars(WorkerTakesPlan(w))
           /\ WF_vars(\E outcome \in HandlerOutcomes : HandlerReturns(w, outcome))
           /\ WF_vars(DryRunSleepReturns(w))
           /\ WF_vars(PublishReturns(w))

SpecExecutorFair == InitExecutor /\ [][NextExecutor]_vars /\ FairExecutor

SpecExecutorStop == InitExecutor /\ [][NextExecutorStop]_vars

InitParse ==
    /\ config \in {c \in Configs : ~c.dry_run /\ ~c.require_approval}
    /\ OrchInit
    /\ PolicyIdle
    /\ BreakerIdle
    /\ ExecInit
    /\ AnalyzerIdle
    /\ DetectorIdle
    /\ parse_call \in
          {NoParseCall(str) : str \in UNION {Strings(n) : n \in 0..MaxLen}}
    /\ LifeIdle

SpecParse == InitParse /\ [][CallParseTimeEstimate]_vars

-----------------------------------------------------------------------------
(* The Analyzer handling analysis.request events, from an empty cache, from *)
(* a cache one entry short of its limit, and from a full cache whose oldest *)
(* entry is a fallback analysis                                             *)

\* incidents analysed earlier, one cache key each
EarlierIncident(i) ==
    AnalyzedIncident("i1", "ledgerwriter", "high_memory", "warning", 10 * i, 500)

\* a cache of n live analyses made earlier
Filled(n) ==
    [i \in 1..n |-> [key |-> _get_cache_key(EarlierIncident(i)),
                     analysis |-> LiveAnalysis(EarlierIncident(i))]]

\* the incident whose analysis failed earlier, and a full cache whose oldest
\* entry is its fallback analysis
FailedEarlier == AnalyzedIncident("i1", "frontend", "high_cpu", "critical", 851, 500)

OldFallback ==
    <<[key |-> _get_cache_key(FailedEarlier),
       analysis |-> _get_fallback_analysis(FailedEarlier)]>>
      \o Filled(CacheLimit - 1)

InitAnalyzer ==
    /\ config \in {c \in Configs : ~c.dry_run /\ ~c.require_approval}
    /\ OrchInit
    /\ PolicyIdle
    /\ BreakerIdle
    /\ ExecInit
    /\ ParseIdle
    /\ LifeIdle
    /\ DetectorIdle
    /\ analyzer \in
          {NewAnalyzer(Filled(n)) : n \in {0, CacheLimit - 1}}
          \cup {[NewAnalyzer(OldFallback) EXCEPT
                    !.fallbacks = {_get_cache_key(FailedEarlier)}]}

SpecAnalyzer == InitAnalyzer /\ [][NextAnalyzer]_vars

-----------------------------------------------------------------------------
(* start(), stop() and the loops, from construction *)

InitLife ==
    /\ config \in Configs
    /\ OrchInit
    /\ PolicyIdle
    /\ BreakerIdle
    /\ ExecInit
    /\ AnalyzerIdle
    /\ DetectorIdle
    /\ ParseIdle
    /\ LifeIdle

SpecLife == InitLife /\ [][NextLife]_vars

-----------------------------------------------------------------------------
(* The maintenance loop of a started Orchestrator whose registry holds an  *)
(* incident handled some time ago                                          *)

\* a started Orchestrator: start() has returned, both loops sleep
Started ==
    [NoLife EXCEPT !.running = TRUE,
                   !.start = "returned",
                   !.components = [c \in Components |-> Component(TRUE, "not_called")],
                   !.monitor = "sleeping",
                   !.loop = "sleeping"]

\* the time of day maintenance begins at, two days after the first
\* incident: midnight, one o'clock, noon, eleven at night
MaintenanceTimes == {2 * Day + h * Hour : h \in {0, 1, 12, 23}}

\* the incident of the registry at time t: none, or one in any state, last
\* updated two days, exactly 24 hours, or an hour before
Registries(t) ==
    {[i \in {} |-> 0]}
    \cup {[i \in IncidentIds |->
             [NewIncident(sev, 1, updated_at) EXCEPT !.state = state]] :
             sev \in {"critical"},
             state \in {"analyzing", "remediating", "resolved", "failed"},
             updated_at \in {t - 2 * Day, t - Day, t - Hour}}

InitMaintenance ==
    /\ config \in {c \in Configs : ~c.dry_run /\ ~c.require_approval}
    /\ now \in MaintenanceTimes
    /\ incidents \in Registries(now)
    /\ detections = [i \in IncidentIds |-> 0]
    /\ tasks = [s \in TaskSlots |-> NoTask]
    /\ gemini = NewCircuitBreaker
    /\ dashboard_updates = {}
    /\ analysis_requests = [i \in EventIds |-> 0]
    /\ remediation_requests = [i \in EventIds |-> 0]
    /\ PolicyIdle
    /\ BreakerIdle
    /\ ExecInit
    /\ AnalyzerIdle
    /\ DetectorIdle
    /\ ParseIdle
    /\ life = Started

NextMaintenance ==
    \/ MaintenancePass
    \/ StopBegin

SpecMaintenance == InitMaintenance /\ [][NextMaintenance]_vars

-----------------------------------------------------------------------------
(* The monitoring loop of a started Detector that has run for a hundred    *)
(* cycles                                                                  *)

\* the cycles the Detector has begun before
EarlierCycles == 100

\* the history of a service that had a snapshot in the last n cycles
Collected(n) == [k \in 1..n |-> EarlierCycles - n + k]

\* the histories of a service: none, one snapshot, one short of the limit,
\* and full
Histories == {Collected(n) : n \in {0, 1, HistoryLimit - 1, HistoryLimit}}

InitHistory ==
    /\ config \in {c \in Configs : ~c.dry_run /\ ~c.require_approval}
    /\ OrchInit
    /\ PolicyIdle
    /\ BreakerIdle
    /\ ExecInit
    /\ AnalyzerIdle
    /\ detector \in {NewDetector(h, EarlierCycles) :
                        h \in [Services -> Histories]}
    /\ ParseIdle
    /\ life = Started

NextHistory ==
    \/ MonitorCycle
    \/ \E collected \in SUBSET Services, anomaly \in BOOLEAN :
           MonitorCollected(collected, anomaly)
    \/ MonitorPublished

SpecHistory == InitHistory /\ [][NextHistory]_vars

InitOrchestrator ==
    /\ config \in Configs
    /\ OrchInit
    /\ PolicyIdle
    /\ BreakerIdle
    /\ ExecInit
    /\ AnalyzerIdle
    /\ DetectorIdle
    /\ ParseIdle
    /\ LifeIdle

SpecOrchestrator == InitOrchestrator /\ [][NextOrchestrator]_vars

\* The Orchestrator under the configuration in which remediation goes ahead
\* and remediation.completed events follow: no dry run, no approval step
InitCompletion ==
    /\ config \in {c \in Configs : ~c.dry_run /\ ~c.require_approval}
    /\ OrchInit
    /\ PolicyIdle
    /\ BreakerIdle
    /\ ExecInit
    /\ AnalyzerIdle
    /\ DetectorIdle
    /\ ParseIdle
    /\ LifeIdle

SpecCompletion == InitCompletion /\ [][NextOrchestrator]_vars

-----------------------------------------------------------------------------
(* _should_remediate called directly, as test_should_remediate_logic does *)

PolicyConfidences == {0, 50, 69, 70, 71, 95, 100}

PolicyAnalyses ==
    {Analysis(TRUE, c, "gemini-1.5-flash") : c \in PolicyConfidences}
        \cup {Analysis(FALSE, 0, "gemini-1.5-flash")}

CallShouldRemediate ==
    /\ sr_result = <<>>
    /\ sr_result' =
           <<ShouldRemediateOutcome(config, sr_args.severity, sr_args.analysis)>>
    /\ UNCHANGED <<config, sr_args, orchVars, breakerVars, execVars, parseVars,
                   lifeVars, compVars>>

InitPolicy ==
    /\ config \in Configs
    /\ OrchInit
    /\ sr_args \in [severity : Severities, analysis : PolicyAnalyses]
    /\ sr_result = <<>>
    /\ BreakerIdle
    /\ ExecInit
    /\ AnalyzerIdle
    /\ DetectorIdle
    /\ ParseIdle
    /\ LifeIdle

SpecPolicy == InitPolicy /\ [][CallShouldRemediate]_vars

-----------------------------------------------------------------------------
(* A CircuitBreaker called on its own: can_execute(), record_success() and  *)
(* record_failure() in any order, at any time, as CircuitBreaker.execute    *)
(* and the Orchestrator call them. cb_call keeps what the calls were, apart *)
(* from the counters the breaker keeps itself.                              *)

\* what a breaker call leaves alone
notBreaker ==
    <<config, sr_args, sr_result, execVars, parseVars, lifeVars, compVars,
      incidents,
      detections, tasks, dashboard_updates, analysis_requests,
      remediation_requests>>

\* datetime.now() at the calls: the ends of the reset timeouts counted from
\* 0, and the second before each
BreakerTimes ==
    {k * reset_timeout - d : k \in 1..MaxPeriods, d \in {0, 1}}

\* time passes between two calls
BreakerTick ==
    /\ \E t \in BreakerTimes : t > now /\ now' = t
    /\ UNCHANGED <<gemini, cb_call>>
    /\ UNCHANGED notBreaker

\* cb.can_execute()
CallCanExecute ==
    /\ gemini' = AfterCanExecute(gemini, now)
    /\ cb_call' = [cb_call EXCEPT
           !.op = "can_execute",
           !.returned = <<can_execute(gemini, now)>>,
           !.successes = IF gemini'.state # gemini.state THEN 0 ELSE @,
           !.reopened = IF gemini'.state # gemini.state THEN <<>> ELSE @,
           !.trials = IF gemini'.state = "half_open"
                        THEN IF @ < MaxTrials THEN @ + 1 ELSE @
                        ELSE 0]
    /\ UNCHANGED now
    /\ UNCHANGED notBreaker

\* cb.record_success()
CallRecordSuccess ==
    /\ gemini' = record_success(gemini)
    /\ cb_call' = [cb_call EXCEPT
           !.op = "record_success",
           !.returned = <<>>,
           !.failures = 0,
           !.successes = IF gemini.state = "half_open" THEN @ + 1 ELSE 0,
           !.trials = 0]
    /\ UNCHANGED now
    /\ UNCHANGED notBreaker

\* cb.record_failure()
CallRecordFailure ==
    /\ gemini.failure_count < MaxFailureCount
    /\ gemini' = record_failure(gemini, now)
    /\ cb_call' = [cb_call EXCEPT
           !.op = "record_failure",
           !.returned = <<>>,
           !.failures = @ + 1,
           !.successes = 0,
           !.failed_at = <<now>>,
           !.reopened = IF gemini.state = "half_open"
                          THEN <<[at |-> now, after |-> cb_call.successes]>>
                          ELSE @,
           !.trials = 0]
    /\ UNCHANGED now
    /\ UNCHANGED notBreaker

NextBreaker ==
    \/ BreakerTick
    \/ CallCanExecute
    \/ CallRecordSuccess
    \/ CallRecordFailure

InitBreaker ==
    /\ config \in {c \in Configs : ~c.dry_run /\ ~c.require_approval}
    /\ OrchInit
    /\ PolicyIdle
    /\ BreakerIdle
    /\ ExecInit
    /\ AnalyzerIdle
    /\ DetectorIdle
    /\ ParseIdle
    /\ LifeIdle

SpecBreaker == InitBreaker /\ [][NextBreaker]_vars

-----------------------------------------------------------------------------
(* The handling of incident.detected with a 'gemini' breaker that the      *)
(* handlers of other incidents use too: their analysis.request publishes    *)
(* that raised are record_failure() calls on the breaker all handlers       *)
(* share. The analyses are the Orchestrator's own here; analysis.completed  *)
(* and remediation.completed events from the bus are in SpecOrchestrator.   *)

NextFallback ==
    \/ \E id \in IncidentIds, sev \in OrchSeverities :
           HandleIncidentDetected(id, sev)
    \/ \E s \in TaskSlots : DetectedCheckBreaker(s)
    \/ \E s \in TaskSlots, raised \in BOOLEAN : DetectedPublishReturns(s, raised)
    \/ \E s \in TaskSlots : AnalysisDecide(s)
    \/ Tick
    \/ CallRecordFailure

InitFallback ==
    /\ config \in Configs
    /\ OrchInit
    /\ PolicyIdle
    /\ BreakerIdle
    /\ ExecInit
    /\ AnalyzerIdle
    /\ DetectorIdle
    /\ ParseIdle
    /\ LifeIdle

SpecFallback == InitFallback /\ [][NextFallback]_vars

\* The same handling with the bus delivering the analysis.completed events
\* of an Analyzer whose reasoning calls fail: its fallback analyses, besides
\* the Orchestrator's own
NextAnalysed ==
    \/ \E id \in IncidentIds, sev \in OrchSeverities :
           HandleIncidentDetected(id, sev)
    \/ \E s \in TaskSlots : DetectedCheckBreaker(s)
    \/ \E s \in TaskSlots, raised \in BOOLEAN : DetectedPublishReturns(s, raised)
    \/ \E id \in EventIds : HandleAnalysisCompleted(id, AnalyzerFallback)
    \/ \E s \in TaskSlots : AnalysisDecide(s)
    \/ CallRecordFailure

SpecAnalysed == InitFallback /\ [][NextAnalysed]_vars

\* The handling of incident.detected together with the Analyzer that
\* answers its analysis.request events: the bus runs the Analyzer's handler
\* once for each event published.
DeliverAnalysisRequest(s, incident) ==
    /\ incident.id \in IncidentIds
    /\ analyzer.handled[incident.id] < analysis_requests[incident.id]
    /\ HandleAnalysisRequest(s, incident)

NextPipeline ==
    \/ \E id \in IncidentIds, sev \in OrchSeverities :
           HandleIncidentDetected(id, sev)
    \/ \E s \in TaskSlots : DetectedCheckBreaker(s)
    \/ \E s \in TaskSlots, raised \in BOOLEAN : DetectedPublishReturns(s, raised)
    \/ \E s \in TaskSlots : AnalysisDecide(s)
    \/ \E s \in AnalyzerSlots, incident \in AnalysisRequests :
           DeliverAnalysisRequest(s, incident)
    \/ \E s \in AnalyzerSlots, outcome \in ReasoningOutcomes :
           ReasoningReturns(s, outcome)
    \/ \E s \in AnalyzerSlots : AnalysisPublishReturns(s)

SpecPipeline == InitFallback /\ [][NextPipeline]_vars

-----------------------------------------------------------------------------
(* Claims about the Orchestrator *)

AllowedTransitions ==
    {<<"new", "analyzing">>, <<"analyzing", "remediating">>,
     <<"analyzing", "resolved">>, <<"remediating", "resolved">>,
     <<"remediating", "failed">>}

\* the registry holds the same incident object under id before and after
SameIncident(id) ==
    /\ id \in DOMAIN incidents
    /\ id \in DOMAIN incidents'
    /\ incidents'[id].obj = incidents[id].obj

\* C1: every change of a registered incident's state, under any sequence of
\* incident.detected, analysis.completed and remediation.completed events,
\* is one of new->analyzing, analyzing->remediating, analyzing->resolved,
\* remediating->resolved, remediating->failed (an incident enters the
\* registry in analyzing, the new->analyzing step being inside the handler).
C1_OnlyForwardTransitions ==
    [][\A id \in IncidentIds :
          /\ (id \notin DOMAIN incidents /\ id \in DOMAIN incidents')
                => incidents'[id].state = "analyzing"
          /\ (SameIncident(id) /\ incidents'[id].state # incidents[id].state)
                => <<incidents[id].state, incidents'[id].state>>
                       \in AllowedTransitions]_vars

\* C2: terminal states are absorbing: once an incident is resolved or
\* failed, no later event moves that incident to a different state.
C2_TerminalAbsorbing ==
    [][\A id \in IncidentIds :
          (SameIncident(id) /\ incidents[id].state \in TerminalStates)
              => incidents'[id].state = incidents[id].state]_vars

\* C10: while analysis.completed is being handled for an incident whose
\* remediation is not warranted, the incident is not in remediating and no
\* dashboard.incident_update has shown it as remediating, and no
\* remediation.request is published for it.
C10_NotWarrantedNeverRemediating ==
    \A s \in TaskSlots :
        LET t == tasks[s] IN
        (/\ t.pc = "analysis_decide"
         /\ ~_should_remediate(config, t.severity, t.analysis[1]))
            => /\ Holds(t) => incidents[t.id].state # "remediating"
               /\ <<t.id, "remediating">> \notin dashboard_updates
               /\ remediation_requests[t.id] = 0

\* C11: when the handling of analysis.completed is over for a registered
\* incident of severity critical with an analysis of confidence 0.9, under a
\* configuration with dry_run enabled and approval not required, the
\* incident's state is remediating and its root_cause is the analysis.
C11_AnalysisCompletedLeavesRemediating ==
    [][\A s \in TaskSlots :
          LET t == tasks[s] IN
          (/\ t.pc = "analysis_decide"
           /\ tasks'[s].pc = "none"
           /\ Holds(t)
           /\ t.severity = "critical"
           /\ t.analysis = <<Analysis(TRUE, 90, "gemini-1.5-flash")>>
           /\ config.dry_run
           /\ ~config.require_approval)
              => /\ incidents'[t.id].state = "remediating"
                 /\ incidents'[t.id].root_cause = t.analysis]_vars

\* C12: every incident in the registry has resolved_at set if and only if
\* its state is resolved or failed.
C12_ResolvedAtIffTerminal ==
    \A id \in DOMAIN incidents :
        (incidents[id].resolved_at # <<>>)
            <=> (incidents[id].state \in TerminalStates)

\* C13: handling remediation.completed for a registered incident sets its
\* state to resolved and sets resolved_at when success is true, sets its
\* state to failed when success is false, and stores the event's result as
\* remediation_result in both cases.
C13_RemediationCompletedSetsState ==
    [][\A id \in IncidentIds, success \in BOOLEAN, r \in ResultInputs :
          (Registered(id) /\ HandleRemediationCompleted(id, success, r))
              => /\ success => /\ incidents'[id].state = "resolved"
                               /\ incidents'[id].resolved_at = <<now>>
                 /\ ~success => incidents'[id].state = "failed"
                 /\ incidents'[id].remediation_result = <<r>>
                 /\ <<id, incidents'[id].state>> \in dashboard_updates']_vars

\* C13 witness: a remediation.completed with success false was handled and
\* left the incident failed with the event's result stored
C13_Witness ==
    /\ "i1" \in DOMAIN incidents
    /\ incidents["i1"].state = "failed"
    /\ incidents["i1"].remediation_result = <<"failed">>
    /\ <<"i1", "failed">> \in dashboard_updates

\* C14: when a remediation.completed payload has been applied to an
\* incident, applying the same payload a second time leaves the incident
\* in the state the first application produced, and that state is terminal.
C14_SamePayloadTwice ==
    [][\A id \in IncidentIds, success \in BOOLEAN, r \in ResultInputs :
          (Registered(id) /\ HandleRemediationCompleted(id, success, r))
              => LET once == incidents'[id]
                     twice == ApplyRemediationCompleted(once, success, r, now')
                 IN  /\ twice.state = once.state
                     /\ twice.state \in TerminalStates]_vars

\* C14 witness: a remediation.completed with success false was applied,
\* after the clock moved, and the incident is failed with its result
C14_Witness ==
    /\ "i1" \in DOMAIN incidents
    /\ incidents["i1"].state = "failed"
    /\ incidents["i1"].remediation_result # <<>>
    /\ incidents["i1"].updated_at > 0
    /\ <<"i1", "failed">> \in dashboard_updates

\* C15: when incident.detected is handled while the 'gemini' breaker is
\* open, the incident gets a root_cause that is not None and has the shape
\* of the Analyzer's fallback analysis: a confidence and a model_version
\* equal to 'fallback'.
C15_FallbackHasModelVersion ==
    [][\A s \in TaskSlots :
          (/\ DetectedCheckBreaker(s)
           /\ gemini.state = "open"
           /\ ~can_execute(gemini, now))
              => LET inc == incidents'[tasks[s].id] IN
                 /\ inc.root_cause # <<>>
                 /\ inc.root_cause[1].has_confidence
                 /\ inc.root_cause[1].model_version = "fallback"]_vars

\* C16: each handled incident.detected takes exactly one analysis path. If
\* can_execute() is true, exactly one analysis.request is published and no
\* local analysis is applied, unless the publish raises, and then the local
\* fallback is applied; if can_execute() is false, no analysis.request is
\* published and the local fallback analysis goes through
\* _handle_analysis_completed, once.
C16_OneAnalysisPath ==
    [][\A s \in TaskSlots :
          LET id == tasks[s].id
              fallback_applied ==
                  /\ tasks'[s].pc = "analysis_decide"
                  /\ tasks'[s].analysis = <<basic_analysis>>
                  /\ incidents'[id].root_cause = <<basic_analysis>>
                  /\ analysis_requests' = analysis_requests
          IN  /\ (DetectedCheckBreaker(s) /\ can_execute(gemini, now))
                    => /\ analysis_requests'[id] = analysis_requests[id] + 1
                       /\ incidents' = incidents
                       /\ tasks'[s].pc = "detected_published"
              /\ (DetectedCheckBreaker(s) /\ ~can_execute(gemini, now))
                    => fallback_applied
              /\ DetectedPublishReturns(s, FALSE)
                    => /\ incidents' = incidents
                       /\ analysis_requests' = analysis_requests
                       /\ tasks'[s] = NoTask
              /\ DetectedPublishReturns(s, TRUE) => fallback_applied
              /\ (tasks[s].pc \in {"detected_breaker", "detected_published"}
                  /\ tasks'[s] # tasks[s])
                    => \/ DetectedCheckBreaker(s)
                       \/ \E raised \in BOOLEAN :
                              DetectedPublishReturns(s, raised)]_vars

\* C16 witness: an incident.detected found the breaker open: no
\* analysis.request went out and the local fallback analysis is in
C16_Witness ==
    \E s \in TaskSlots :
        /\ tasks[s].pc = "analysis_decide"
        /\ tasks[s].analysis = <<basic_analysis>>
        /\ analysis_requests[tasks[s].id] = 0
        /\ detections[tasks[s].id] = 1
        /\ gemini.state = "open"

\* C9: _should_remediate returns true iff dry_run is false, the severity is
\* neither info nor warning, the confidence (0 when missing) is at least
\* 0.7 and require_approval is false; the rules apply in that order, each
\* rejection being the first rule that matches.
C9_ShouldRemediateIff ==
    sr_result # <<>> =>
        LET sev == sr_args.severity
            conf == IF sr_args.analysis.has_confidence
                      THEN sr_args.analysis.confidence ELSE 0
            low == sev \in {"info", "warning"}
            out == sr_result[1]
        IN  /\ out.result <=> (/\ ~config.dry_run
                               /\ ~low
                               /\ conf >= 70
                               /\ ~config.require_approval)
            /\ (out.log = "dry_run") <=> config.dry_run
            /\ (~config.dry_run /\ low) => (~out.result /\ out.log = "none")
            /\ (out.log = "confidence_too_low")
                   <=> (~config.dry_run /\ ~low /\ conf < 70)
            /\ (out.log = "approval_required")
                   <=> (/\ ~config.dry_run /\ ~low /\ conf >= 70
                        /\ config.require_approval)

\* C9 witness: the warning incident with confidence 0.95 was rejected
C9_Witness ==
    /\ sr_result # <<>>
    /\ sr_args.severity = "warning"
    /\ sr_args.analysis = Analysis(TRUE, 95, "gemini-1.5-flash")
    /\ ~config.dry_run
    /\ ~config.require_approval
    /\ sr_result[1].result = FALSE

-----------------------------------------------------------------------------
(* Claims about the RemediationExecutor *)

CreatedPlans == 1..Len(plans)

FailedStep(step) == step.completed /\ ~step.success

\* a failed step that does not let the plan continue
AbortingStep(step) == FailedStep(step) /\ ~step.continue_on_error

\* worker w is suspended in the publish of plan p's remediation.completed
Publishing(w, p) ==
    /\ workers[w].pc = "publishing"
    /\ workers[w].plan = p
    /\ workers[w].event # <<>>

\* C3: every plan a worker starts executing leads to exactly one
\* remediation.completed carrying its incident id and plan id: none before
\* the plan is over, one (never two) once it is, on success and on abort.
C3_ExactlyOneCompletion ==
    /\ \A p \in PlanIds \ CreatedPlans : remediation_completed[p] = 0
    /\ \A p \in CreatedPlans :
          /\ plans[p].execution_state \in {"pending", "executing"}
                => remediation_completed[p] = 0
          /\ plans[p].execution_state \in {"completed", "failed", "destroyed"}
                => remediation_completed[p] = 1
          /\ plans[p].execution_state \in {"completed", "failed"}
                => \E w \in Workers :
                      /\ Publishing(w, p)
                      /\ workers[w].event[1].plan_id = p
                      /\ workers[w].event[1].incident_id = plans[p].incident_id

\* C3 witness: a plan aborted by a failed step has its one completion
\* published, after an earlier plan was run to its end
C3_Witness ==
    \E p \in CreatedPlans, w \in Workers :
        /\ Publishing(w, p)
        /\ ~workers[w].event[1].success
        /\ remediation_completed[p] = 1
        /\ \E q \in CreatedPlans : plans[q].execution_state = "destroyed"

\* C4: queue admission is non-blocking and lossy: no remediation.request
\* handler ever waits for queue space (a plan that finds the queue full is
\* dropped), and the queue never holds more than max_concurrent pairs.
C4_AdmissionNeverWaits ==
    /\ putters = {}
    /\ Len(execution_queue) <= max_concurrent

C6_StopsAtFirstAbortingStep ==
    ~config.dry_run =>
        \A p \in CreatedPlans :
            LET S == plans[p].steps IN
            /\ \A i, j \in DOMAIN S :
                  (i < j /\ S[j].started) => S[i].completed
            /\ \A i \in DOMAIN S :
                  AbortingStep(S[i]) =>
                      /\ \A j \in DOMAIN S : j > i => ~S[j].started
                      /\ \E w \in Workers :
                            /\ Publishing(w, p)
                            /\ workers[w].event[1].success = FALSE
                            /\ workers[w].event[1].error
                                   = <<S[i].name, S[i].error_message>>

\* C6 witness: the first of two steps failed with continue_on_error =
\* false, the second was never started, the failure is published
C6_Witness ==
    /\ ~config.dry_run
    /\ \E p \in CreatedPlans, w \in Workers :
          /\ Len(plans[p].steps) = 2
          /\ plans[p].steps[1].handler_called
          /\ AbortingStep(plans[p].steps[1])
          /\ ~plans[p].steps[2].started
          /\ Publishing(w, p)
          /\ ~workers[w].event[1].success

\* C7: with dry-run off, a failed step with continue_on_error = true does
\* not stop the plan (the next step is started), and the reported success
\* is true exactly when no failed step had continue_on_error = false, every
\* step having been executed in that case.
C7_ContinuableFailureGoesOn ==
    ~config.dry_run =>
        \A p \in CreatedPlans :
            LET S == plans[p].steps IN
            /\ \A i \in DOMAIN S :
                  (FailedStep(S[i]) /\ S[i].continue_on_error /\ i < Len(S))
                      => S[i + 1].started
            /\ \A w \in Workers :
                  Publishing(w, p) =>
                      /\ workers[w].event[1].success
                            <=> ~\E i \in DOMAIN S : AbortingStep(S[i])
                      /\ workers[w].event[1].success
                            => \A i \in DOMAIN S : S[i].completed

\* C7 witness: step A failed with continue_on_error = true, step B ran and
\* succeeded, and the plan is reported with success = true
C7_Witness ==
    /\ ~config.dry_run
    /\ \E p \in CreatedPlans, w \in Workers :
          /\ Len(plans[p].steps) = 2
          /\ FailedStep(plans[p].steps[1])
          /\ plans[p].steps[1].continue_on_error
          /\ plans[p].steps[2].success
          /\ Publishing(w, p)
          /\ workers[w].event[1].success

\* C8: in dry-run mode no action handler is invoked, every step processed
\* is recorded as succeeded with an output starting with "DRY RUN", and the
\* plan is reported with success = true, all its steps done.
C8_DryRunCallsNoHandler ==
    config.dry_run =>
        \A p \in CreatedPlans :
            LET S == plans[p].steps IN
            /\ \A i \in DOMAIN S :
                  /\ ~S[i].handler_called
                  /\ S[i].started =>
                        /\ S[i].success
                        /\ S[i].output # <<>>
                        /\ S[i].output[1] = "DRY RUN"
            /\ \A w \in Workers :
                  Publishing(w, p) =>
                      /\ workers[w].event[1].success
                      /\ \A i \in DOMAIN S : S[i].started
                      /\ workers[w].event[1].result.steps_completed = Len(S)

\* C8 witness: a dry-run plan holding a step without handler and a step
\* with one is reported as succeeded
C8_Witness ==
    /\ config.dry_run
    /\ \E p \in CreatedPlans, w \in Workers :
          /\ Publishing(w, p)
          /\ workers[w].event[1].success
          /\ \E i \in DOMAIN plans[p].steps :
                plans[p].steps[i].action_type \notin action_handlers
          /\ \E i \in DOMAIN plans[p].steps :
                plans[p].steps[i].action_type \in action_handlers

-----------------------------------------------------------------------------
(* Claims about the CircuitBreaker *)

\* seconds since the last record_failure() call
SinceFailure == now - cb_call.failed_at[1]

\* C17: a closed breaker opens exactly when failure_threshold consecutive
\* record_failure() calls occur with no record_success() in between: the
\* failure that makes the run failure_threshold long leaves it open with
\* can_execute() false; a shorter run leaves it closed with can_execute()
\* true; a record_success() while closed resets the count to 0.
C17_OpensAtThreshold ==
    /\ [](gemini.state = "closed"
            => /\ cb_call.failures < failure_threshold
               /\ can_execute(gemini, now))
    /\ [][(CallRecordFailure /\ gemini.state = "closed")
            => IF cb_call'.failures >= failure_threshold
                 THEN /\ gemini'.state = "open"
                      /\ ~can_execute(gemini', now')
                 ELSE /\ gemini'.state = "closed"
                      /\ can_execute(gemini', now')]_vars
    /\ [][(CallRecordSuccess /\ gemini.state = "closed")
            => /\ gemini'.state = "closed"
               /\ gemini'.failure_count = 0]_vars

\* C17 witness: the third failure in a row has opened the breaker
C17_Witness ==
    /\ cb_call.op = "record_failure"
    /\ cb_call.failures = failure_threshold
    /\ cb_call.reopened = <<>>
    /\ gemini.state = "open"
    /\ ~can_execute(gemini, now)

\* C18: can_execute() on an open breaker returns false and changes nothing
\* while less than reset_timeout has passed since the last recorded
\* failure; called at or after that time it returns true and sets the state
\* to half_open, which is all it changes; on a closed or half-open breaker
\* it returns true and changes no field; and the passing of time alone
\* changes nothing.
C18_LazyHalfOpen ==
    /\ [][CallCanExecute
            => IF gemini.state = "open"
                 THEN IF SinceFailure < reset_timeout
                        THEN /\ cb_call'.returned = <<FALSE>>
                             /\ gemini' = gemini
                        ELSE /\ cb_call'.returned = <<TRUE>>
                             /\ gemini' = [gemini EXCEPT !.state = "half_open"]
                 ELSE /\ cb_call'.returned = <<TRUE>>
                      /\ gemini' = gemini]_vars
    /\ [][BreakerTick => gemini' = gemini]_vars

\* C18 witness: a can_execute() call exactly reset_timeout after the last
\* failure returned true and left the breaker half-open
C18_Witness ==
    /\ cb_call.op = "can_execute"
    /\ cb_call.returned = <<TRUE>>
    /\ gemini.state = "half_open"
    /\ cb_call.failed_at # <<>>
    /\ SinceFailure = reset_timeout

\* C19: from half_open, the record_success() call that makes
\* success_threshold consecutive ones closes the breaker with failure_count
\* 0 and success_count 0; an earlier one leaves it half_open.
C19_ClosesAfterSuccesses ==
    [][(CallRecordSuccess /\ gemini.state = "half_open")
          => IF cb_call'.successes >= success_threshold
               THEN /\ gemini'.state = "closed"
                    /\ gemini'.failure_count = 0
                    /\ gemini'.success_count = 0
               ELSE gemini'.state = "half_open"]_vars

\* C19 witness: the second trial success has closed the breaker
C19_Witness ==
    /\ cb_call.op = "record_success"
    /\ cb_call.successes = success_threshold
    /\ gemini.state = "closed"
    /\ gemini.failure_count = 0
    /\ cb_call.failed_at # <<>>

\* C20: from half_open, one record_failure() opens the breaker again
\* whatever the number of trial successes before it, with success_count 0,
\* and can_execute() returns false as long as less than reset_timeout has
\* passed since that failure.
C20_HalfOpenFailureReopens ==
    /\ [][(CallRecordFailure /\ gemini.state = "half_open")
            => /\ gemini'.state = "open"
               /\ gemini'.success_count = 0
               /\ ~can_execute(gemini', now')]_vars
    /\ []((/\ gemini.state = "open"
            /\ cb_call.reopened # <<>>
            /\ now - cb_call.reopened[1].at < reset_timeout)
              => ~can_execute(gemini, now))
    /\ [][(/\ CallCanExecute
           /\ gemini.state = "open"
           /\ cb_call.reopened # <<>>
           /\ cb_call.failed_at = <<cb_call.reopened[1].at>>
           /\ now - cb_call.reopened[1].at >= reset_timeout)
            => cb_call'.returned = <<TRUE>>]_vars

\* C20 witness: a failure after one trial success has reopened the breaker
C20_Witness ==
    /\ cb_call.op = "record_failure"
    /\ cb_call.reopened # <<>>
    /\ cb_call.reopened[1].after = 1
    /\ gemini.state = "open"
    /\ gemini.success_count = 0

\* C21: a half-open breaker admits a bounded set of trial calls: as long
\* as no record_success() or record_failure() has been recorded since it
\* became half-open, the callers that got true from can_execute() stay
\* below a fixed number (here: below the number of callers counted).
C21_BoundedTrialCalls ==
    gemini.state = "half_open" => cb_call.trials < MaxTrials

-----------------------------------------------------------------------------
(* Claims about the end of a plan and about failing steps *)

\* the plans some worker is inside _execute_remediation_plan's try block of
Executing ==
    {workers[w].plan : w \in {v \in Workers :
        workers[v].pc \in {"in_handler", "dry_run_sleep",
                           Cancelling["in_handler"],
                           Cancelling["dry_run_sleep"]}}}

\* C22: a finished plan is not in the active-execution table, whatever its
\* outcome (success, early abort, an exception raised inside the
\* execution): the table holds only plans whose execution is under way.
C22_FinishedPlanNotActive ==
    /\ active_executions \subseteq Executing
    /\ \A p \in CreatedPlans :
           remediation_completed[p] > 0 => p \notin active_executions

\* C22 witness: a plan cut short by the cancellation of its worker is in
\* the publish of its finally block, and the table is empty
C22_Witness ==
    \E w \in Workers :
        /\ ~exec_running
        /\ workers[w].pc = "publishing"
        /\ remediation_completed[workers[w].plan] = 1
        /\ \E i \in DOMAIN plans[workers[w].plan].steps :
               /\ plans[workers[w].plan].steps[i].handler_called
               /\ ~plans[workers[w].plan].steps[i].success
        /\ workers[w].event[1].success
        /\ active_executions = {}

\* C23: a plan leaves the active-execution table after its
\* remediation.completed has been published: while the event is being
\* published the plan is still in the table.
C23_ActiveWhilePublishing ==
    \A w \in Workers :
        workers[w].pc = "publishing"
            => workers[w].plan \in active_executions

\* C24: a step failure stays inside the worker. A step whose action type
\* has no handler fails with no handler invoked; a step whose handler
\* raises, or outlives the timeout, is recorded as failed, the timeout with
\* its own error message; and the worker stays in its loop: it carries on
\* with the plan or ends it, and once back at the queue it takes the next
\* plan queued.
C24_StepFailureStaysInWorker ==
    /\ [](\A p \in CreatedPlans : \A i \in DOMAIN plans[p].steps :
             LET step == plans[p].steps[i] IN
             (step.started /\ step.action_type \notin action_handlers
                 /\ ~config.dry_run)
                => /\ step.completed
                   /\ ~step.success
                   /\ ~step.handler_called
                   /\ step.error_message = "unknown_action")
    /\ [][\A w \in Workers, outcome \in {"handler_error", "timeout"} :
             HandlerReturns(w, outcome)
                => LET step == plans'[workers[w].plan].steps[workers[w].idx]
                   IN  /\ step.completed
                       /\ ~step.success
                       /\ step.error_message = outcome
                       /\ workers'[w].pc \in {"in_handler", "publishing"}]_vars
    /\ [](\A w \in Workers :
             /\ exec_running => workers[w].pc \in Suspended
             /\ (workers[w].pc = "idle" /\ execution_queue # <<>>)
                    => ENABLED WorkerTakesPlan(w))

\* C24 witness: after a first plan that ended, a worker has taken the next
\* one, whose first step had no handler and failed without one being
\* invoked, and is in the handler of its second step
C24_Witness ==
    \E w \in Workers :
        /\ workers[w].pc = "in_handler"
        /\ workers[w].plan = 2
        /\ workers[w].idx = 2
        /\ remediation_completed[1] = 1
        /\ plans[2].steps[1].action_type \notin action_handlers
        /\ plans[2].steps[1].completed
        /\ ~plans[2].steps[1].success
        /\ ~plans[2].steps[1].handler_called

-----------------------------------------------------------------------------
(* Claim about _parse_time_estimate *)

\* the seconds the text stands for: n, 60 n or 3600 n for a decimal integer
\* followed by s, m or h, and 300 for every other text
StatedSeconds(time_str) ==
    LET str == strip(lower(time_str))
        body == SubSeq(str, 1, Len(str) - 1)
    IN  IF str # <<>> /\ IsInt(body)
             /\ str[Len(str)] \in {"s", "m", "h"}
          THEN Decimal(strip(body))
                 * (CASE str[Len(str)] = "s" -> 1
                      [] str[Len(str)] = "m" -> 60
                      [] str[Len(str)] = "h" -> 3600)
          ELSE 300

\* C25: _parse_time_estimate never raises and returns n, 60 n, 3600 n for
\* "<n>s", "<n>m", "<n>h" and 300 for every other text, and the step built
\* for the action has that timeout.
C25_ParseTimeEstimateTotal ==
    parse_call.outcome # <<>>
        => /\ ~parse_call.outcome[1].raised
           /\ parse_call.outcome[1].value = StatedSeconds(parse_call.time_str)
           /\ parse_call.timeout_seconds
                 = <<StatedSeconds(parse_call.time_str)>>

-----------------------------------------------------------------------------
(* Claims about the maintenance loop, start() and stop() *)

\* C26: a pass of the maintenance loop removes from the registry exactly
\* the incidents in a terminal state whose updated_at is more than 24 hours
\* old, and no other incident.
C26_CleanupRemovesOldTerminal ==
    [][MaintenancePass
         => incidents' =
              [id \in {i \in DOMAIN incidents :
                          ~ /\ incidents[i].state \in TerminalStates
                            /\ incidents[i].updated_at < now' - Day}
                 |-> incidents[id]]]_vars

\* C27: every pass of the maintenance loop of a running Orchestrator
\* publishes one health.check event.
C27_PassPublishesHealthCheck ==
    [][(MaintenancePass /\ life.running)
         => life'.health_checks = life.health_checks + 1]_vars

\* C28: stop() sets running to false and invokes stop on all four
\* components; a component whose stop raises does not keep the others from
\* being stopped, and stop() never raises.
C28_StopStopsAllAndReturns ==
    /\ life.stop # "raised"
    /\ life.stop # "not_called"
          => /\ ~life.running
             /\ \A c \in Components : life.components[c].stop # "not_called"
    /\ life.stop = "returned"
          => \A c \in Components :
                /\ life.components[c].stop \in {"returned", "raised"}
                /\ ~life.components[c].running

\* C28 witness: stop() has returned after the Detector's stop raised, and
\* the other three components are stopped
C28_Witness ==
    /\ life.start = "returned"
    /\ life.stop = "returned"
    /\ life.components["detector"].stop = "raised"
    /\ \A c \in Components \ {"detector"} :
           life.components[c].stop = "returned" /\ ~life.components[c].running

\* C29: while start() is under way the Detector publishes no
\* incident.detected before the Analyzer, the Executor and the Dashboard
\* have been started.
C29_ConsumersReadyBeforeDetection ==
    (life.monitor = "publishing" /\ life.stop = "not_called")
        => \A c \in {"analyzer", "executor", "dashboard"} :
              life.components[c].running

\* C30: once stop() of the Detector or of the Orchestrator has been called,
\* its loop does no further iteration: no monitoring cycle begins, and no
\* maintenance pass is made.
C30_NoIterationAfterStop ==
    [][/\ life.components["detector"].stop \in {"returned", "raised"}
           => life'.cycles = life.cycles
       /\ life.stop # "not_called"
           => life'.passes = life.passes]_vars

-----------------------------------------------------------------------------
(* Claims about the Analyzer *)

\* the handlers for incident id suspended in the call of the reasoning
\* service
Calling(id) ==
    {s \in AnalyzerSlots :
        /\ analyzer.tasks[s].pc = "calling"
        /\ analyzer.tasks[s].incident.id = id}

\* C31: every analysis.request the Analyzer handles results in exactly one
\* analysis.completed event with the id of the requesting incident, by
\* cache hit, by live call or by fallback: per incident id the events
\* published are as many as the requests handled, less those still in the
\* call of the reasoning service, and the event a handler publishes carries
\* its incident's id.
C31_OneAnalysisCompletedPerRequest ==
    /\ \A id \in AnalysisIds :
           analyzer.completed[id] + Cardinality(Calling(id))
               = analyzer.handled[id]
    /\ \A s \in AnalyzerSlots :
           analyzer.tasks[s].pc = "publishing"
               => analyzer.tasks[s].event[1].incident_id
                     = analyzer.tasks[s].incident.id

\* C31 witness: a request is answered from the cache with the fallback
\* analysis made for another incident, after a live call answered a third
C31_Witness ==
    \E s \in AnalyzerSlots :
        /\ analyzer.tasks[s].pc = "publishing"
        /\ analyzer.tasks[s].path = "cache"
        /\ analyzer.tasks[s].event[1].analysis.model_version = "fallback"
        /\ analyzer.tasks[s].event[1].analysis.incident_id
              # analyzer.tasks[s].incident.id
        /\ \E i \in DOMAIN analyzer.cache :
               /\ analyzer.cache[i].analysis.model_version = "gemini"
               /\ analyzer.cache[i].key = _get_cache_key(
                      AnalyzedIncident("i1", "frontend", "high_cpu",
                                       "critical", 856, 500))

-----------------------------------------------------------------------------
(* Claims about the Detector's history *)

\* a history h after snapshot m is appended, the oldest entry dropped from
\* a full one
AppendedFIFO(h, m) ==
    IF Len(h) = HistoryLimit
      THEN [k \in 1..HistoryLimit |-> IF k < HistoryLimit THEN h[k + 1] ELSE m]
      ELSE [k \in 1..(Len(h) + 1) |-> IF k <= Len(h) THEN h[k] ELSE m]

\* the histories after the cycle that collected the services in collected
AfterCycle(collected) ==
    \A svc \in Services :
        detector'.metrics_history[svc] =
            IF svc \in collected
              THEN AppendedFIFO(detector.metrics_history[svc], detector.cycle)
              ELSE detector.metrics_history[svc]

\* C32: no service's history ever holds more than 100 entries; the cycle
\* that completes appends its snapshot to the history of each service it
\* collected, dropping the oldest entry of a full history, both when no
\* anomaly fired and after the anomalies were published.
C32_HistoryBoundedFIFO ==
    /\ [](\A svc \in Services :
             Len(detector.metrics_history[svc]) <= HistoryLimit)
    /\ [][/\ \A collected \in SUBSET Services :
                 MonitorCollected(collected, FALSE) => AfterCycle(collected)
          /\ MonitorPublished => AfterCycle(detector.all_metrics)]_vars

\* C32 witness: after two cycles, one of them with an anomaly, a history
\* that was full holds the snapshots of both and has lost its two oldest
C32_Witness ==
    /\ life.monitor = "sleeping"
    /\ life.incident_detected = 1
    /\ detector.cycle = EarlierCycles + 2
    /\ \E svc \in Services :
           /\ Len(detector.metrics_history[svc]) = HistoryLimit
           /\ detector.metrics_history[svc][1] = EarlierCycles - HistoryLimit + 3
           /\ detector.metrics_history[svc][HistoryLimit] = detector.cycle

-----------------------------------------------------------------------------
(* Claim about the outcome a cancelled plan reports *)

\* C33: with dry-run off, remediation.completed carries success = true for
\* a plan only if every step of the plan was attempted; a plan cut short by
\* stop() cancelling its worker is not reported as a success with
\* execution_state "completed".
C33_SuccessMeansEveryStepAttempted ==
    \A w \in Workers :
        (/\ workers[w].pc \in {"publishing", Cancelling["publishing"]}
         /\ ~config.dry_run
         /\ workers[w].event[1].success)
            => \A i \in DOMAIN plans[workers[w].plan].steps :
                   plans[workers[w].plan].steps[i].started

-----------------------------------------------------------------------------
(* Claim about the completion of every request *)

\* C34: every remediation.request the Executor handles is eventually
\* followed by a remediation.completed for its incident: the plan built
\* for the request, steps or none, has its completion published.
C34_EveryRequestCompletes ==
    \A p \in PlanIds :
        [](p \in CreatedPlans => <>(remediation_completed[p] > 0))

\* the same, for the requests whose analysis recommends an action
RequestWithStepsCompletes ==
    \A p \in PlanIds :
        []((p \in CreatedPlans /\ plans[p].execution_state = "pending"
               /\ plans[p].steps # <<>>)
              => <>(remediation_completed[p] > 0))

-----------------------------------------------------------------------------
(* Claim about repeated analysis.completed events *)

\* C35: for every incident id the Orchestrator publishes at most one
\* remediation.request, whatever analysis.completed events are delivered
\* for the id.
C35_AtMostOneRemediationRequest ==
    \A id \in EventIds : remediation_requests[id] <= 1

-----------------------------------------------------------------------------
(* Claim about incidents analysed by a fallback *)

\* the analyses of the two fallback paths
FallbackAnalyses == {AnalyzerFallback, basic_analysis}

\* C36: an incident analysed through a fallback path is never remediated
\* automatically: the handling of the Analyzer's fallback analysis, and of
\* the Orchestrator's own, publishes no remediation.request, for every
\* severity and configuration, and at its end the incident it handled is
\* resolved, with resolved_at set and the update published.
C36_FallbackNeverRemediated ==
    [][/\ \A id \in EventIds, a \in FallbackAnalyses :
              HandleAnalysisCompleted(id, a)
                  => remediation_requests' = remediation_requests
       /\ \A s \in TaskSlots :
              (AnalysisDecide(s) /\ tasks[s].analysis[1] \in FallbackAnalyses)
                  => /\ remediation_requests' = remediation_requests
                     /\ <<tasks[s].id, "resolved">> \in dashboard_updates'
                     /\ Holds(tasks[s])
                            => /\ incidents'[tasks[s].id].state = "resolved"
                               /\ incidents'[tasks[s].id].resolved_at # <<>>]_vars

\* C36 witness: with dry run and approval off, a critical incident that
\* the Orchestrator's own fallback analysed is resolved and no
\* remediation.request went out for it
C36_Witness ==
    /\ ~config.dry_run
    /\ ~config.require_approval
    /\ \E id \in IncidentIds :
           /\ Registered(id)
           /\ incidents[id].severity = "critical"
           /\ incidents[id].root_cause = <<basic_analysis>>
           /\ incidents[id].state = "resolved"
           /\ remediation_requests[id] = 0
           /\ \A s \in TaskSlots : tasks[s] = NoTask

-----------------------------------------------------------------------------
(* Claims about the counters of a CircuitBreaker *)

\* C37: in every state of a breaker driven through can_execute,
\* record_success and record_failure, a closed breaker has failure_count
\* below failure_threshold, success_count is below success_threshold, and
\* success_count is 0 unless the breaker is half-open.
C37_CounterInvariants ==
    /\ gemini.state = "closed" => gemini.failure_count < failure_threshold
    /\ gemini.success_count < success_threshold
    /\ gemini.state # "half_open" => gemini.success_count = 0

\* C37 witness: a half-open breaker one trial success short of closing,
\* its failure_count at the threshold that opened it
C37_Witness ==
    /\ gemini.state = "half_open"
    /\ gemini.success_count = success_threshold - 1
    /\ gemini.failure_count >= failure_threshold
    /\ cb_call.op = "record_success"

\* C38: an open breaker cannot stay open for ever: whenever the breaker is
\* open its last_failure_time is set, only record_failure() moves it, and a
\* can_execute() call made once reset_timeout has passed since then
\* returns true and leaves the breaker half-open.
C38_OpenBreakerReopensForTrial ==
    /\ [](gemini.state = "open" => gemini.last_failure_time # <<>>)
    /\ [][(/\ gemini.state = "open"
           /\ gemini'.last_failure_time # gemini.last_failure_time)
              => CallRecordFailure]_vars
    /\ [][(/\ CallCanExecute
           /\ gemini.state = "open"
           /\ gemini.last_failure_time # <<>>
           /\ now - gemini.last_failure_time[1] >= reset_timeout)
              => /\ cb_call'.returned = <<TRUE>>
                 /\ gemini'.state = "half_open"]_vars

\* C38 witness: a breaker opened again by a failed trial call has become
\* half-open at a can_execute() made more than reset_timeout after that
\* failure
C38_Witness ==
    /\ gemini.state = "half_open"
    /\ cb_call.op = "can_execute"
    /\ cb_call.returned = <<TRUE>>
    /\ gemini.failure_count > failure_threshold
    /\ gemini.last_failure_time # <<>>
    /\ gemini.last_failure_time[1] >= reset_timeout
    /\ now - gemini.last_failure_time[1] > reset_timeout

-----------------------------------------------------------------------------
(* Claim about the Analyzer's failures and the Orchestrator's breaker *)

\* the analysis.request publish of some incident.detected handler raises
PublishRaises == \E s \in TaskSlots : DetectedPublishReturns(s, TRUE)

\* C39: a failed reasoning call inside the Analyzer leaves the
\* Orchestrator's 'gemini' breaker unchanged, as every step of the Analyzer
\* does; a publish of analysis.request that returns is recorded as a
\* success; a failure is recorded only when that publish raises; so a
\* breaker that is closed with failure_count 0 stays so as long as no
\* publish raises.
C39_AnalyzerFailureLeavesBreaker ==
    /\ [][\A s \in AnalyzerSlots, outcome \in ReasoningOutcomes \ {"ok"} :
              ReasoningReturns(s, outcome) => gemini' = gemini]_vars
    /\ [][analyzer' # analyzer => gemini' = gemini]_vars
    /\ [][\A s \in TaskSlots :
              DetectedPublishReturns(s, FALSE)
                  => /\ gemini'.failure_count <= gemini.failure_count
                     /\ gemini.state = "closed" => gemini'.failure_count = 0]_vars
    /\ [][(\/ gemini'.failure_count > gemini.failure_count
           \/ gemini'.last_failure_time # gemini.last_failure_time
           \/ gemini'.state = "open" /\ gemini.state # "open")
              => PublishRaises]_vars
    /\ [][(/\ gemini.state = "closed"
           /\ gemini.failure_count = 0
           /\ ~PublishRaises)
              => /\ gemini'.state = "closed"
                 /\ gemini'.failure_count = 0]_vars

\* C39 witness: the reasoning call for an incident whose analysis.request
\* was published has failed and the Analyzer's fallback is on its way,
\* the breaker closed with no failure counted
C39_Witness ==
    /\ gemini.state = "closed"
    /\ gemini.failure_count = 0
    /\ \E s \in AnalyzerSlots :
           /\ analyzer.tasks[s].pc = "publishing"
           /\ analyzer.tasks[s].path = "fallback"
           /\ analysis_requests[analyzer.tasks[s].incident.id] > 0
           /\ \A t \in TaskSlots : tasks[t] = NoTask

-----------------------------------------------------------------------------
(* Claims about the Analyzer's cache *)

\* C40 as stated: once a failed reasoning call has stored a fallback
\* analysis under a cache key, every later analysis.request with that key
\* is answered with the stored fallback analysis and makes no call, until
\* the entry is evicted.
C40_FallbackAnswersUntilEvicted ==
    [][\A s \in AnalyzerSlots, incident \in AnalysisRequests :
          (/\ HandleAnalysisRequest(s, incident)
           /\ _get_cache_key(incident) \in analyzer.fallbacks)
              => /\ analyzer'.calls = analyzer.calls
                 /\ analyzer'.tasks[s].pc = "publishing"
                 /\ analyzer'.tasks[s].event[1].analysis.model_version
                        = "fallback"]_vars

\* C40 as amended: a failed reasoning call stores its fallback analysis
\* under the cache key; a request whose key is in the cache makes no call
\* and is answered with the analysis stored under the key; an entry changes
\* only when a reasoning call returns, by the result of a call for the same
\* key or by eviction; the cache never holds more than 100 entries, and
\* the entry that would be the 101st removes the 50 oldest.
C40_CachedAnswersUntilReplacedOrEvicted ==
    /\ [](Len(analyzer.cache) <= CacheLimit)
    /\ [][\A s \in AnalyzerSlots :
              (analyzer.tasks[s].pc = "none" /\ analyzer'.tasks[s].pc # "none")
                  => LET incident == analyzer'.tasks[s].incident
                         key == _get_cache_key(incident)
                     IN  IF \E i \in DOMAIN analyzer.cache :
                                analyzer.cache[i].key = key
                           THEN /\ analyzer'.calls = analyzer.calls
                                /\ analyzer'.cache = analyzer.cache
                                /\ analyzer'.tasks[s].pc = "publishing"
                                /\ analyzer'.tasks[s].event[1].analysis
                                       = CacheGet(analyzer.cache, key)
                           ELSE /\ analyzer'.calls = analyzer.calls + 1
                                /\ analyzer'.tasks[s].pc = "calling"]_vars
    /\ [][\A s \in AnalyzerSlots :
              analyzer.tasks[s].pc = "calling"
                  => \A outcome \in ReasoningOutcomes \ {"ok"} :
                         ReasoningReturns(s, outcome)
                             => LET key == _get_cache_key(analyzer.tasks[s].incident)
                                    stored == CacheGet(analyzer'.cache, key)
                                IN  /\ stored.model_version = "fallback"
                                    /\ stored.incident_id
                                           = analyzer.tasks[s].incident.id]_vars
    /\ [][analyzer'.cache # analyzer.cache
              => \E s \in AnalyzerSlots :
                     LET key == _get_cache_key(analyzer.tasks[s].incident)
                         old == analyzer.cache
                         new == analyzer'.cache
                     IN  /\ analyzer.tasks[s].pc = "calling"
                         /\ analyzer'.tasks[s].pc = "publishing"
                         /\ \/ /\ Len(new) = Len(old)
                               /\ \A i \in DOMAIN old :
                                      new[i] # old[i] => old[i].key = key
                            \/ /\ Len(new) = Len(old) + 1
                               /\ new[Len(new)].key = key
                               /\ \A i \in DOMAIN old : new[i] = old[i]
                            \/ /\ Len(old) = CacheLimit
                               /\ Len(new) = CacheLimit + 1 - OldestKeys
                               /\ new[Len(new)].key = key
                               /\ \A j \in 1..(CacheLimit - OldestKeys) :
                                      new[j] = old[OldestKeys + j]]_vars

\* C40 witness: two calls for one key were in flight; the first failed, its
\* fallback went into a full cache as the 101st entry and the 50 oldest
\* went, an older fallback among them; the second returned and its live
\* analysis replaced the fallback; and a later request with the key is
\* answered from the cache
C40_Witness ==
    \E s \in AnalyzerSlots :
        /\ analyzer.tasks[s].pc = "publishing"
        /\ analyzer.tasks[s].path = "cache"
        /\ _get_cache_key(analyzer.tasks[s].incident) \in analyzer.fallbacks
        /\ analyzer.tasks[s].event[1].analysis.model_version = "gemini"
        /\ Len(analyzer.cache) = CacheLimit + 1 - OldestKeys
        /\ _get_cache_key(FailedEarlier) \notin CacheKeys(analyzer.cache)
        /\ analyzer.calls = 2

====
